---- MODULE Spec2Model ----
(***************************************************************************)
(* memberfy: HTTP handlers and frame pages that look up a profile by fid,  *)
(* download its avatar with retry, reduce it to a grid palette, recolour a *)
(* fixed SVG template and rasterize it.                                    *)
(*                                                                         *)
(* Variants modelled                                                       *)
(*   custom_hat     src/pages/api/custom_hat/[fid].ts   API, averaging     *)
(*   custom_member  src/unnamed/part_000 (1-230)        API, k-means       *)
(*   scaled_scape   src/unnamed/part_000 (231-472)      API, k-means       *)
(*   opepen_a       src/app/generate-image.tsx (1-201)  frame, averaging   *)
(*   opepen_b       src/app/generate-image.tsx (202-415) frame, averaging  *)
(*   member         src/unnamed/part_001                frame, k-means     *)
(* The frame pages are src/unnamed/part_002 (opepen) and src/app/page.tsx  *)
(* (member).                                                               *)
(***************************************************************************)
EXTENDS Integers, Sequences, FiniteSets, TLC

VARIABLES rq    \* rq[r]: the whole state of request r (nothing is shared)

vars == <<rq>>

(***************************************************************************)
(* Bounds of the model                                                     *)
(***************************************************************************)
\* largest cell edge, in pixels, of a decoded avatar in the averaging variants
MaxCell == 2
\* number of distinct pixel patterns an avatar may carry
MaxPattern == 1
\* largest retry count fetchWithRetry is called with when called on its own
MaxRetries == 4
\* largest number of actions dispatched to the reducer of one frame page
MaxPresses == 30

(***************************************************************************)
(* Program constants                                                       *)
(***************************************************************************)
DefaultRetries == 3
DefaultBackoff == 300
ResizeTo == 25
NaN == 0 - 1            \* Math.round(0 / 0); every channel value is >= 0

Reqs == {1}

ApiVariants == {"custom_hat", "custom_member", "scaled_scape"}
FrameVariants == {"opepen_a", "opepen_b", "member"}
Variants == ApiVariants \cup FrameVariants

UsesKmeans(v) == v \in {"custom_member", "scaled_scape", "member"}
SetsCorsHeaders(v) == v \in {"custom_hat", "scaled_scape"}
\* generateImage of part_001 has no `if (!fid)` test
ChecksFid(v) == v # "member"

GridSizeX(v) == IF v \in {"opepen_a", "opepen_b"} THEN 12 ELSE 9
GridSizeY(v) == IF v \in {"opepen_a", "opepen_b"} THEN 12 ELSE 9

(***************************************************************************)
(* JavaScript values of fid                                                *)
(***************************************************************************)
Undefined == [type |-> "undefined", chars |-> <<>>, num |-> 0]
Str(cs) == [type |-> "string", chars |-> cs, num |-> 0]
Arr == [type |-> "array", chars |-> <<"7", "8">>, num |-> 0]
Num(n) == [type |-> "number", chars |-> <<>>, num |-> n]

\* !v
Falsy(v) ==
  \/ v.type = "undefined"
  \/ v.type = "string" /\ v.chars = <<>>
  \/ v.type = "number" /\ v.num = 0

QueryFids == {Undefined, Arr, Str(<<>>), Str(<<"7">>), Str(<<"a", "b">>)}
MessageFids == {Undefined, Num(0), Num(7)}
Methods == {"GET", "OPTIONS", "POST"}

DigitValue(c) ==
  CASE c = "0" -> 0 [] c = "1" -> 1 [] c = "2" -> 2 [] c = "3" -> 3 [] c = "4" -> 4
    [] c = "5" -> 5 [] c = "6" -> 6 [] c = "7" -> 7 [] c = "8" -> 8 [] c = "9" -> 9
    [] OTHER -> NaN

RECURSIVE ParseDigits(_, _)
ParseDigits(cs, acc) ==
  IF cs = <<>> THEN acc
  ELSE IF DigitValue(Head(cs)) = NaN THEN NaN
  ELSE ParseDigits(Tail(cs), acc * 10 + DigitValue(Head(cs)))

\* Number(fid) for the fids above
ToNumber(v) ==
  CASE v.type = "number" -> v.num
    [] v.type = "string" -> ParseDigits(v.chars, 0)
    [] OTHER -> NaN

(***************************************************************************)
(* URLs and the log of what a request did on the network and the timer     *)
(***************************************************************************)
NoUrl == [host |-> "none", fid |-> Undefined, avatar |-> Undefined]
ProfileUrl(fid) == [host |-> "searchcaster.xyz", fid |-> fid, avatar |-> Undefined]
AvatarProxyUrl(avatarUrl) ==
  [host |-> "res.cloudinary.com", fid |-> Undefined, avatar |-> avatarUrl]

FetchEv(url) == [ev |-> "fetch", url |-> url, kind |-> "", n |-> 0, left |-> 0]
RespEv(url, kind, left) == [ev |-> "resp", url |-> url, kind |-> kind, n |-> 0, left |-> left]
WaitEv(ms) == [ev |-> "wait", url |-> NoUrl, kind |-> "", n |-> ms, left |-> 0]

NoImage == [width |-> 0, height |-> 0, channels |-> 0, mul |-> 0, add |-> 0]

\* a promise: pending, resolved with a value, or rejected with an error.
\* An error is named by the avatar fetch attempt that raised it (0: another step).
NoError == [attempt |-> 0, kind |-> "none"]
Pending == [state |-> "pending", value |-> "none", body |-> 0, err |-> NoError]
Resolved(v) == [state |-> "resolved", value |-> v, body |-> 0, err |-> NoError]
ResolvedBody(n) == [state |-> "resolved", value |-> "buffer", body |-> n, err |-> NoError]
Rejected(e) == [state |-> "rejected", value |-> "none", body |-> 0, err |-> e]

NoHeaders == [cors |-> FALSE, ctype |-> "none"]
NoPage == [src |-> "none", href |-> "none"]

InitReq(v, m, fid) ==
  [variant |-> v, method |-> m, fid |-> fid, pc |-> "start", log |-> <<>>,
   profile |-> "none", stack |-> <<>>, fwr |-> Pending, failed |-> "none",
   img |-> NoImage, x |-> 0, y |-> 0, palette |-> <<>>, svg |-> <<>>,
   gen |-> Pending, headers |-> NoHeaders, responses |-> <<>>, page |-> NoPage]

\* the requests: every method with every kind of fid (POST with a sample of them),
\* and the frame messages
Inputs ==
  {InitReq(v, m, f) : v \in ApiVariants, m \in {"GET", "OPTIONS"}, f \in QueryFids}
    \cup {InitReq(v, "POST", f) : v \in ApiVariants, f \in {Undefined, Str(<<"7">>)}}
    \cup {InitReq(v, "POST", f) : v \in FrameVariants, f \in MessageFids}

Init == rq \in [Reqs -> Inputs]

\* the palette is a module-level array that every request writes
Set_ModuleLevelPalette(r, rec) ==
  rq' = [s \in DOMAIN rq |-> IF s = r THEN rec ELSE [rq[s] EXCEPT !.palette = rec.palette]]

\* a step of request r writes r's own locals and response only
Set(r, rec) == rq' = [rq EXCEPT ![r] = rec]

(***************************************************************************)
(* generateImage: entry, profile lookup                                    *)
(***************************************************************************)
\* no catch block: the error leaves generateImage
GenerateImageCatch_Rethrow(err) == Rejected(err)

\* the catch block of generateImage: every error becomes a null result
GenerateImageCatch(err) == Resolved("null")

\* generateImage has settled; its caller resumes
Settle(q, settlement, why) ==
  [q EXCEPT !.gen = settlement, !.failed = why, !.pc = "gen_done"]

Fail(q, why, err) == Settle(q, GenerateImageCatch(err), why)

\* fetch(`https://searchcaster.xyz/api/profiles?fid=${fid}`)
CallProfileLookup(q) ==
  [q EXCEPT !.log = Append(@, FetchEv(ProfileUrl(q.fid))), !.pc = "profile"]

\* what readFileSync may find at the path of the fallback image
FallbackFiles == {"bytes", "empty", "unreadable"}

\* getFallbackImageBase64: the base64 of the file's bytes (the empty string for an
\* empty file), or null when the read throws
GetFallbackImageBase64(file) ==
  CASE file = "bytes" -> Resolved("fallback64")
    [] file = "empty" -> Resolved("")
    [] OTHER -> Resolved("null")

\* generateImage up to its first await
GenerateImageStart(q, file) ==
  IF ChecksFid(q.variant) /\ Falsy(q.fid)
  THEN IF q.variant \in ApiVariants
       THEN Settle(q, Resolved("null"), "none")
       ELSE Settle(q, GetFallbackImageBase64(file), "none")
  ELSE CallProfileLookup(q)

(***************************************************************************)
(* The API handler                                                         *)
(***************************************************************************)
Response(status, body, headers) == [status |-> status, body |-> body, ctype |-> headers.ctype]

\* res.status(s).end() / .send(text): the headers are left as they are
Send(q, status, body) ==
  [q EXCEPT !.responses = Append(@, Response(status, body, q.headers)), !.pc = "done"]

\* res.status(s).json(obj): the framework sets Content-Type to JSON and sends
SendJson(q, status, body) ==
  LET h == [q.headers EXCEPT !.ctype = "application/json"]
  IN  [q EXCEPT !.headers = h, !.responses = Append(@, Response(status, body, h)),
                !.pc = "done"]

SetCorsHeaders(q) ==
  IF SetsCorsHeaders(q.variant) THEN [q EXCEPT !.headers.cors = TRUE] ELSE q

\* `if (!fid)` in place of the typeof test: an array passes
FidIsString_Truthy(fid) == ~Falsy(fid)

\* the content is validated as well: a string of digits
FidIsString_Digits(fid) == fid.type = "string" /\ fid.chars # <<>> /\ ToNumber(fid) # NaN

\* typeof fid !== 'string'
FidIsString(fid) == fid.type = "string"

\* `if (!buffer) return;`: nothing is sent and the request hangs
NotFound_NothingSent(q) == q

\* the Content-Type is set before the image is known to exist
NotFound_HeaderFirst(q) == Send([q EXCEPT !.headers.ctype = "image/png"], 404, "Image not found")

\* res.status(404).send('Image not found')
NotFound(q) == Send(q, 404, "Image not found")

\* res.setHeader('Content-Type', 'image/png'); res.status(200).send(buffer)
RespondWithImage(q) == Send([q EXCEPT !.headers.ctype = "image/png"], 200, q.gen.value)

\* the fid is validated before the method is looked at
HandlerStart_FidFirst(r) ==
  /\ rq[r].pc = "start"
  /\ rq[r].variant \in ApiVariants
  /\ LET q == SetCorsHeaders(rq[r])
     IN  IF ~FidIsString(q.fid) THEN Set(r, SendJson(q, 400, "Bad Request"))
         ELSE IF q.method = "OPTIONS" THEN Set(r, Send(q, 200, ""))
         ELSE Set(r, GenerateImageStart(q, "bytes"))

\* handler, from the request to its first await
HandlerStart(r) ==
  /\ rq[r].pc = "start"
  /\ rq[r].variant \in ApiVariants
  /\ LET q == SetCorsHeaders(rq[r])
     IN  IF q.method = "OPTIONS" THEN Set(r, Send(q, 200, ""))
         ELSE IF ~FidIsString(q.fid) THEN Set(r, SendJson(q, 400, "Bad Request"))
         ELSE Set(r, GenerateImageStart(q, "bytes"))

\* handler, after `await generateImage(...)`
HandlerRespond(r) ==
  /\ rq[r].pc = "gen_done"
  /\ rq[r].variant \in ApiVariants
  /\ LET q == rq[r]
     IN  IF q.gen.state = "rejected"
         THEN Set(r, SendJson(q, 500, "Internal Server Error"))
         ELSE IF q.gen.value = "null" THEN Set(r, NotFound(q))
         ELSE Set(r, RespondWithImage(q))

(***************************************************************************)
(* The frame page                                                          *)
(***************************************************************************)
FallbackImageUrl(v) ==
  IF v = "member" THEN "https://memberfy.vercel.app/member.png" ELSE "/fc_opepen.png"

\* Home, up to `await generateImage(validMessage!)`
PageStart(r) ==
  /\ rq[r].pc = "start"
  /\ rq[r].variant \in FrameVariants
  /\ \E file \in FallbackFiles : Set(r, GenerateImageStart(rq[r], file))

\* `encodedPngImage ? ... : ...`: null and the empty string are falsy
Truthy(encodedPngImage) == encodedPngImage \notin {"null", ""}

\* `${fid}` in a template literal
FidText(fid) ==
  CASE fid.type = "number" -> ToString(fid.num)
    [] fid.type = "undefined" -> "undefined"
    [] OTHER -> "text"

\* the test is `!== null`: an empty string is inlined too
FrameImageSrc_NotNull(v, encodedPngImage) ==
  IF encodedPngImage # "null" THEN "data:image/png;base64," \o encodedPngImage
  ELSE FallbackImageUrl(v)

\* src of FrameImage
FrameImageSrc(v, encodedPngImage) ==
  IF Truthy(encodedPngImage) THEN "data:image/png;base64," \o encodedPngImage
  ELSE FallbackImageUrl(v)

\* href of the download button (page.tsx only)
DownloadHref(v, encodedPngImage, fid) ==
  IF v # "member" THEN "none"
  ELSE IF Truthy(encodedPngImage)
       THEN "https://memberfy.vercel.app/api/custom_member/" \o FidText(fid)
  ELSE FallbackImageUrl(v)

\* Home, after generateImage: the frame is rendered
PageRender(r) ==
  /\ rq[r].pc = "gen_done"
  /\ rq[r].variant \in FrameVariants
  /\ LET q == rq[r]
     IN  Set(r, [q EXCEPT !.page = [src |-> FrameImageSrc(q.variant, q.gen.value),
                                    href |-> DownloadHref(q.variant, q.gen.value, q.fid)],
                          !.pc = "done"])

(***************************************************************************)
(* generateImage: the profile lookup answers                               *)
(***************************************************************************)
\* what the directory service may answer
ProfileOutcomes ==
  {"throw", "status", "badjson", "notarray", "empty", "nobody", "emptyurl", "url"}

\* fetch rejects, `!response.ok` throws, or response.json() rejects
ProfileThrows(o) == o \in {"throw", "status", "badjson"}

\* Array.isArray(searchcasterData) && searchcasterData.length > 0
UserFound(o) == o \notin {"notarray", "empty"}

\* searchcasterData[0]?.body?.avatarUrl
AvatarUrlOf(o) ==
  CASE o = "url" -> Str(<<"p", "f", "p">>)
    [] o = "emptyurl" -> Str(<<>>)
    [] OTHER -> Undefined

\* only a missing avatarUrl is refused: an empty one is downloaded
HasAvatarUrl_NotUndefined(o) == AvatarUrlOf(o) # Undefined

\* `if (!avatarUrl)` does not return
HasAvatarUrl(o) == ~Falsy(AvatarUrlOf(o))

(***************************************************************************)
(* fetchWithRetry(url, retries = 3, backoff = 300)                         *)
(* stack: the calls of fetchWithRetry that have not settled, innermost     *)
(* last; each call past the first was made by `return fetchWithRetry(...)` *)
(* of the call below it.                                                   *)
(***************************************************************************)
Frame(url, retries, backoff) == [url |-> url, retries |-> retries, backoff |-> backoff]

\* what one fetch of the avatar may give: a 2xx whose body is read ("ok") or whose
\* body read rejects ("bodyfail"), a 429, another non-2xx status, or a thrown error
AttemptOutcomes == {"ok", "bodyfail", "s429", "status", "throw"}

Is2xx(o) == o \in {"ok", "bodyfail"}

Top(q) == q.stack[Len(q.stack)]
Pop(st) == SubSeq(st, 1, Len(st) - 1)

\* a call of fetchWithRetry: the frame is entered and fetch(url) is issued
CallFetchWithRetry(q, url, retries, backoff) ==
  [q EXCEPT !.stack = Append(@, Frame(url, retries, backoff)),
            !.log = Append(@, FetchEv(url)),
            !.fwr = Pending,
            !.pc = "fetch"]

\* the error thrown for a status other than 429 leaves the function
TryBlock_StatusEscapes(f, o) ==
  CASE o = "ok" -> "return"
    [] o = "status" -> "throw"
    [] o = "s429" /\ f.retries > 0 -> "retry"
    [] OTHER -> "catch"

\* the try block, given the outcome of `await fetch(url)`
TryBlock(f, o) ==
  CASE o = "ok" -> "return"
    [] o = "bodyfail" -> "catch"
    [] o = "throw" -> "catch"
    [] o = "s429" /\ f.retries > 0 -> "retry"
    [] OTHER -> "catch"

\* the catch block retries whatever is left
CatchBlock_Always(f) == "retry"

\* the catch block
CatchBlock(f) == IF f.retries > 0 THEN "retry" ELSE "throw"

AttemptDecision(f, o) ==
  IF TryBlock(f, o) = "catch" THEN CatchBlock(f) ELSE TryBlock(f, o)

\* the backoff grows by its first value instead of doubling
NextBackoff_Linear(backoff) == backoff + DefaultBackoff

\* backoff * 2
NextBackoff(backoff) == backoff * 2

\* the retry goes to the avatar itself, not through the proxy
RecursiveCall_BareUrl(f) ==
  Frame([f.url EXCEPT !.host = "avatar host"], f.retries - 1, NextBackoff(f.backoff))

\* the arguments of the recursive call
RecursiveCall(f) == Frame(f.url, f.retries - 1, NextBackoff(f.backoff))

\* `await new Promise(resolve => setTimeout(resolve, backoff))`
StartWait(q, f) == [q EXCEPT !.log = Append(@, WaitEv(f.backoff)), !.pc = "wait"]

\* the avatar fetches issued so far
IsAvatarFetch(e) == e.ev = "fetch" /\ e.url.host = "res.cloudinary.com"
AvatarFetches(q) == {i \in 1..Len(q.log) : IsAvatarFetch(q.log[i])}
NumAvatarFetches(q) == Cardinality(AvatarFetches(q))

\* `return await fetchWithRetry(...)`: the catch block of the returning call sees it
ReturnedRejection_Awaited(f) == "caught"

\* `return fetchWithRetry(...)` is not awaited inside the try block: a rejection of
\* the returned promise passes the catch block of the returning call by
ReturnedRejection(f) == "propagate"

\* generateImage, after `await fetch(profile)` and `await response.json()`
ProfileDone(r) ==
  /\ rq[r].pc = "profile"
  /\ \E o \in ProfileOutcomes :
       LET q == [rq[r] EXCEPT !.profile = o,
                              !.log = Append(@, RespEv(ProfileUrl(rq[r].fid), o, 0))]
       IN  IF ProfileThrows(o) THEN Set(r, Fail(q, "profile", NoError))
           ELSE IF ~UserFound(o) THEN Set(r, Settle(q, Resolved("null"), "none"))
           ELSE IF ~HasAvatarUrl(o) THEN Set(r, Settle(q, Resolved("null"), "none"))
           ELSE Set(r, CallFetchWithRetry(q, AvatarProxyUrl(AvatarUrlOf(o)),
                                          DefaultRetries, DefaultBackoff))

\* fetchWithRetry, after `await fetch(url)` (and `await response.buffer()`)
FetchDone(r) ==
  /\ rq[r].pc = "fetch"
  /\ \E o \in AttemptOutcomes :
       LET f == Top(rq[r])
           n == NumAvatarFetches(rq[r])
           q == [rq[r] EXCEPT !.log = Append(@, RespEv(f.url, o, f.retries))]
           d == AttemptDecision(f, o)
       IN  IF d = "return" THEN Set(r, [q EXCEPT !.fwr = ResolvedBody(n), !.pc = "settle"])
           ELSE IF d = "retry" THEN Set(r, StartWait(q, f))
           ELSE Set(r, [q EXCEPT !.fwr = Rejected([attempt |-> n, kind |-> o]),
                                 !.pc = "settle"])

\* the backoff timer fires: the recursive call is made
TimerFires(r) ==
  /\ rq[r].pc = "wait"
  /\ LET c == RecursiveCall(Top(rq[r]))
     IN  Set(r, CallFetchWithRetry(rq[r], c.url, c.retries, c.backoff))

\* the innermost call has settled: the call that returned its promise settles
\* the same way, unless its catch block sees the rejection
Unwind(r) ==
  /\ rq[r].pc = "settle"
  /\ Len(rq[r].stack) > 1
  /\ LET q == [rq[r] EXCEPT !.stack = Pop(@)]
         f == Top(q)
     IN  IF /\ q.fwr.state = "rejected"
            /\ ReturnedRejection(f) = "caught"
            /\ CatchBlock(f) = "retry"
         THEN Set(r, StartWait([q EXCEPT !.fwr = Pending], f))
         ELSE Set(r, q)

(***************************************************************************)
(* The decoded avatar                                                      *)
(***************************************************************************)
\* widths (and heights) a decoded avatar may have for a grid of g cells per axis:
\* one pixel short of the grid, and c pixels per cell with c - 1 left over
Sizes(g) == {g - 1} \cup {g * c + (c - 1) : c \in 1..MaxCell}

\* raw pixel data: 3 bytes per pixel, byte idx of pattern p
PatternImage(w, h, p) ==
  [width |-> w, height |-> h, channels |-> 3, mul |-> 6 * p + 1, add |-> 3 * p]

\* what sharp may decode: any avatar for the averaging variants, which keep the
\* size of the download; a 25 x 25 one after .resize(25, 25) for the others
Images(v) ==
  IF UsesKmeans(v)
  THEN {PatternImage(ResizeTo, ResizeTo, p) : p \in 0..MaxPattern}
  ELSE {PatternImage(w, h, p) : w \in Sizes(GridSizeX(v)), h \in Sizes(GridSizeY(v)),
                                p \in 0..MaxPattern}

DataLength(img) == img.width * img.height * img.channels

\* data[idx] ?? 0
Byte(img, idx) ==
  IF idx >= 0 /\ idx < DataLength(img) THEN (idx * img.mul + img.add) % 256 ELSE 0

(***************************************************************************)
(* Palette extraction                                                      *)
(***************************************************************************)
\* the index counts pixels, not bytes
PixelIndex_Unscaled(startX, startY, x, y, width) == (startY + y) * width + (startX + x)

\* ((startY + y) * width + (startX + x)) * 3
PixelIndex(startX, startY, x, y, width) == ((startY + y) * width + (startX + x)) * 3

\* the bytes the two loops of getDominantColorInGrid read for one cell
BytesRead(startX, startY, cellWidth, cellHeight, width) ==
  {PixelIndex(startX, startY, x, y, width) + c :
     x \in 0..(cellWidth - 1), y \in 0..(cellHeight - 1), c \in 0..2}

\* the running sum is halved at every pixel
Accumulate_Halving(sum, value) == (sum + value) \div 2

\* sumRed += data?.[pixelIndex] ?? 0
Accumulate(sum, value) == sum + value

\* the sum of channel c over the cell, rows outermost as the loops go
SumChannel(img, startX, startY, cellWidth, cellHeight, width, c) ==
  LET total == cellWidth * cellHeight
      sum[k \in 0..total] ==
        IF k = 0 THEN 0
        ELSE Accumulate(sum[k - 1],
                        Byte(img, PixelIndex(startX, startY, (k - 1) % cellWidth,
                                             (k - 1) \div cellWidth, width) + c))
  IN  sum[total]

\* Math.floor in place of Math.round
RoundDiv_Truncated(sum, totalPixels) ==
  IF totalPixels = 0 THEN NaN ELSE sum \div totalPixels

\* Math.round(sum / totalPixels): halves round up, 0 / 0 is NaN
RoundDiv(sum, totalPixels) ==
  IF totalPixels = 0 THEN NaN ELSE (2 * sum + totalPixels) \div (2 * totalPixels)

\* getDominantColorInGrid: the mean of each channel, rounded; the k-means variants
\* take the single centroid of the cell's pixels, which is their mean, rounded
GetDominantColorInGrid(img, startX, startY, cellWidth, cellHeight, width) ==
  [c \in 1..3 |->
     RoundDiv(SumChannel(img, startX, startY, cellWidth, cellHeight, width, c - 1),
              cellWidth * cellHeight)]

\* Math.ceil in place of Math.floor
CellHeight_Ceiling(img, v) == (img.height + GridSizeY(v) - 1) \div GridSizeY(v)

CellWidth(img, v) == img.width \div GridSizeX(v)
CellHeight(img, v) == img.height \div GridSizeY(v)

\* the colour of cell (x, y): getDominantColorInGrid(data, startX, startY, ...)
CellColor(img, v, x, y) ==
  GetDominantColorInGrid(img, x * CellWidth(img, v), y * CellHeight(img, v),
                         CellWidth(img, v), CellHeight(img, v), img.width)

\* the cell is addressed column first
PushCell_Transposed(palette, img, v, x, y) == Append(palette, CellColor(img, v, y, x))

\* one turn of the inner loop: the colour of cell (x, y) is pushed
PushCell(palette, img, v, x, y) == Append(palette, CellColor(img, v, x, y))

\* for (x ...) palette.push(...): the pushes of row y, in the order they are made
InnerLoop(img, v, y) == [i \in 1..GridSizeX(v) |-> CellColor(img, v, i - 1, y)]

\* for (y ...) { for (x ...) palette.push(...) }
RECURSIVE PaletteLoop(_, _, _, _)
PaletteLoop(palette, img, v, y) ==
  IF y >= GridSizeY(v) THEN palette
  ELSE PaletteLoop(palette \o InnerLoop(img, v, y), img, v, y + 1)

(***************************************************************************)
(* The SVG template and its recolouring                                    *)
(* A path is a sequence of tokens: literal markup, the placeholder COLOR,  *)
(* or a colour put in its place.                                           *)
(***************************************************************************)
Lit(s) == [t |-> "lit", s |-> s, c |-> <<>>]
ColorToken == [t |-> "COLOR", s |-> "", c |-> <<>>]
Rgb(color) == [t |-> "rgb", s |-> "", c |-> color]
Fill(s) == [t |-> "fill", s |-> s, c |-> <<>>]

P(id) == <<Lit(id), ColorToken>>
Fixed(id) == <<Lit(id)>>

CoordinatesTable(v) ==
  CASE v = "custom_hat" ->
         << <<0, 0>>, <<0, 0>>, <<0, 0>>, <<1, 3>>, <<3, 3>>, <<5, 4>>, <<7, 4>>,
            <<1, 5>>, <<3, 5>>, <<5, 6>>, <<7, 6>> >>
    [] v = "custom_member" ->
         << <<0, 0>>, <<4, 4>>, <<5, 4>>, <<4, 7>>, <<0, 0>>, <<5, 5>>, <<0, 0>>,
            <<4, 6>> >>
    [] v = "opepen_a" ->
         << <<11, 6>>, <<7, 3>>, <<3, 8>>, <<4, 8>>, <<3, 9>>, <<4, 9>>, <<3, 5>>,
            <<3, 6>>, <<4, 5>>, <<4, 6>>, <<6, 6>>, <<0, 0>> >>
    [] v = "opepen_b" ->
         << <<0, 0>>, <<5, 11>>, <<6, 6>>, <<6, 8>>, <<5, 4>>, <<6, 4>>, <<8, 4>>,
            <<9, 4>>, <<9, 3>>, <<5, 3>>, <<6, 3>> >>
    [] OTHER ->   \* scaled_scape, member
         << <<4, 4>>, <<5, 4>>, <<0, 0>>, <<5, 5>>, <<4, 6>>, <<4, 7>>, <<0, 0>>,
            <<1, 5>>, <<4, 6>> >>

\* the template element each entry's comment names, for the two grids of 12:
\* by its number ('torso path 1' ... 'BG 12'), or by its part ('BG', 'torso',
\* 'mouth bottom' ... 'left eye - right top')
NamedElements(v) ==
  CASE v = "opepen_a" ->
         << "path1", "path2", "path3", "path4", "path5", "path6", "path7", "path8",
            "path9", "path10", "path11", "path12" >>
    [] v = "opepen_b" ->
         << "path1", "path2", "path3 - mouth bottom", "path4 - mouth top",
            "path5 - left eye left bottom", "path6 - left eye right bottom",
            "path7 - right eye left bottom", "path8 - right eye right bottom",
            "path9 - right eye right top", "path11 - left eye left top",
            "path12 left eye right top" >>

\* the background rect of the template
BackgroundElement(v) == IF v = "opepen_a" THEN "path12" ELSE "path1"

\* cells counted from 1: (x + 1) + (y + 1) * gridSizeX
PathColorIndices_FromOne(v) ==
  [i \in 1..Len(CoordinatesTable(v)) |->
     (CoordinatesTable(v)[i][1] + 1) + (CoordinatesTable(v)[i][2] + 1) * GridSizeX(v)]

\* coordinatesTable.map(({ x, y }) => x + y * gridSizeX)
PathColorIndices(v) ==
  [i \in 1..Len(CoordinatesTable(v)) |->
     CoordinatesTable(v)[i][1] + CoordinatesTable(v)[i][2] * GridSizeX(v)]

SvgPaths(v) ==
  CASE v = "custom_hat" ->
         << P("empty path"), Fixed("crown url(#b)"), Fixed("brim url(#c)"),
            P("gradient b stop 0"), P("gradient b stop .335"), P("gradient b stop .69"),
            P("gradient b stop 1"), P("gradient c stop 0"), P("gradient c stop .335"),
            P("gradient c stop .69"),
            <<Lit("gradient c stop 1"), ColorToken, Lit("filter a")>> >>
    [] v = "custom_member" ->
         << P("background"), P("head 1"), P("head 2"), P("eye brows"), Fixed("eyes #fff"),
            P("noggles"), Fixed("outline #1F1D2A"), P("body") >>
    [] v = "opepen_a" ->
         << P("path12"), P("path1"), P("path2"), P("path3"), P("path4"), P("path5"),
            P("path6"), P("path7"), P("path8"), P("path9"), P("path10"), P("path11"),
            Fixed("farcheck white") >>
    [] v = "opepen_b" ->
         << P("path1"), P("path2"), P("path3 - mouth bottom"), P("path4 - mouth top"),
            P("path5 - left eye left bottom"), P("path6 - left eye right bottom"),
            P("path7 - right eye left bottom"), P("path8 - right eye right bottom"),
            P("path9 - right eye right top"), P("path10  - right eye left top"),
            P("path11 - left eye left top"), P("path12 left eye right top") >>
    [] OTHER ->   \* scaled_scape, member
         << P("head 1"), P("head 2"), Fixed("eyes #fff"), P("noggles"), P("body 1"),
            P("eye brows"), P("background"), Fixed("outline black"), P("body 2"),
            Fixed("mouth black") >>

\* NaN compares as a small number
Below_NaNIsSmall(a, b) == a < b

\* a < b in JavaScript: false when a is NaN
Below(a, b) == a # NaN /\ a < b

GetColorForFid(v, fid) ==
  CASE v = "opepen_b" ->
         IF Below(fid, 1000) THEN "#FFD700"
         ELSE IF Below(fid, 10000) THEN "#855DCD" ELSE "white"
    [] v = "custom_member" ->
         IF Below(fid, 1000) THEN "gold"
         ELSE IF Below(fid, 10000) THEN "#855DCD"
         ELSE IF Below(fid, 20000) THEN "#CCFF00"
         ELSE IF Below(fid, 100000) THEN "#0857FF" ELSE "#1F1D2A"
    [] OTHER ->
         IF Below(fid, 1000) THEN "gold"
         ELSE IF Below(fid, 10000) THEN "#855DCD"
         ELSE IF Below(fid, 20000) THEN "#94E337" ELSE "white"

\* path.replace('COLOR', rgbColor): the first COLOR of the path, if any
RECURSIVE ReplaceColor(_, _)
ReplaceColor(path, rgbColor) ==
  IF path = <<>> THEN <<>>
  ELSE IF Head(path) = ColorToken THEN <<rgbColor>> \o Tail(path)
  ELSE <<Head(path)>> \o ReplaceColor(Tail(path), rgbColor)

\* a colour index beyond the palette takes the last entry
RecolorPath_Clamped(path, index, palette, pathColorIndices) ==
  IF index < Len(pathColorIndices) /\ palette # <<>>
  THEN LET colorIndex == pathColorIndices[index + 1]
       IN  ReplaceColor(path, Rgb(palette[IF colorIndex < Len(palette) THEN colorIndex + 1
                                          ELSE Len(palette)]))
  ELSE path

\* the callback of svgPaths.map; index counts from 0
RecolorPath(path, index, palette, pathColorIndices) ==
  IF index < Len(pathColorIndices)
  THEN LET colorIndex == pathColorIndices[index + 1]
       IN  IF colorIndex >= 0 /\ colorIndex < Len(palette)
           THEN ReplaceColor(path, Rgb(palette[colorIndex + 1]))
           ELSE path
  ELSE path

RECURSIVE Join(_)
Join(paths) == IF paths = <<>> THEN <<>> ELSE Head(paths) \o Join(Tail(paths))

SvgBody(v, palette, pathColorIndices) ==
  Join([i \in 1..Len(SvgPaths(v)) |->
          RecolorPath(SvgPaths(v)[i], i - 1, palette, pathColorIndices)])

\* `rgb(${palette[0]?.[0]}, ...)` of custom_hat
BackgroundPath(palette) ==
  IF palette = <<>> THEN Fill("rgb(undefined, undefined, undefined)") ELSE Rgb(palette[1])

ConstructSvgStringWithColors(v, palette, pathColorIndices, fid) ==
  LET header == <<Lit("<svg>")>>
      footer == <<Lit("</svg>")>>
      body == SvgBody(v, palette, pathColorIndices)
      farcheck == <<Fill(GetColorForFid(v, fid))>>
  IN  CASE v = "custom_hat" -> header \o <<BackgroundPath(palette)>> \o farcheck \o body \o footer
        [] v \in {"custom_member", "opepen_b"} -> header \o body \o farcheck \o footer
        [] OTHER -> header \o body \o footer

(***************************************************************************)
(* generateImage: download settled, decode, palette, rasterization         *)
(***************************************************************************)
\* the palette is complete: the template is recoloured and handed to sharp
BuildSvg(q, palette) ==
  [q EXCEPT !.palette = palette,
            !.svg = ConstructSvgStringWithColors(q.variant, palette,
                      PathColorIndices(q.variant), ToNumber(q.fid)),
            !.pc = "raster"]

\* generateImage, after `await fetchWithRetry(...)`
DownloadSettled(r) ==
  /\ rq[r].pc = "settle"
  /\ Len(rq[r].stack) = 1
  /\ LET q == [rq[r] EXCEPT !.stack = Pop(@)]
     IN  IF q.fwr.state = "rejected" THEN Set(r, Fail(q, "download", q.fwr.err))
         ELSE Set(r, [q EXCEPT !.pc = "decode"])

\* generateImage, after `await sharp(avatarBuffer)...toBuffer(...)`
DecodeDone(r) ==
  /\ rq[r].pc = "decode"
  /\ \E o \in {"throw", "nodata", "ok"}, img \in Images(rq[r].variant) :
       LET q == rq[r]
       IN  IF o = "throw" THEN Set(r, Fail(q, "decode", NoError))
           ELSE IF o = "nodata" THEN Set(r, Settle(q, Resolved("null"), "nodata"))
           ELSE IF UsesKmeans(q.variant)
           THEN Set(r, [q EXCEPT !.img = img, !.x = 0, !.y = 0, !.pc = "kmeans"])
           ELSE Set(r, BuildSvg([q EXCEPT !.img = img],
                                PaletteLoop(<<>>, img, q.variant, 0)))

\* k-means variants, after `await dominantColor` of cell (x, y)
KmeansDone(r) ==
  /\ rq[r].pc = "kmeans"
  /\ \E o \in {"throw", "ok"} :
       LET q == rq[r]
           v == q.variant
           palette == PushCell(q.palette, q.img, v, q.x, q.y)
           lastX == q.x + 1 >= GridSizeX(v)
           lastY == q.y + 1 >= GridSizeY(v)
       IN  IF o = "throw" THEN Set(r, Fail(q, "palette", NoError))
           ELSE IF lastX /\ lastY THEN Set(r, BuildSvg(q, palette))
           ELSE Set(r, [q EXCEPT !.palette = palette,
                                 !.x = IF lastX THEN 0 ELSE q.x + 1,
                                 !.y = IF lastX THEN q.y + 1 ELSE q.y])

\* the PNG the request produced: a Buffer (API) or its base64 string (frame)
PngResult(v) == IF v \in ApiVariants THEN "png" ELSE "png64"

\* generateImage, after `await sharp(Buffer.from(svg)).png().toBuffer()`
RasterDone(r) ==
  /\ rq[r].pc = "raster"
  /\ \E o \in {"throw", "ok"} :
       IF o = "throw" THEN Set(r, Fail(rq[r], "raster", NoError))
       ELSE Set(r, Settle(rq[r], Resolved(PngResult(rq[r].variant)), "none"))

\* one step of request r: the continuation after one of its awaits
Step(r) ==
  \/ HandlerStart(r)
  \/ PageStart(r)
  \/ ProfileDone(r)
  \/ FetchDone(r)
  \/ TimerFires(r)
  \/ Unwind(r)
  \/ DownloadSettled(r)
  \/ DecodeDone(r)
  \/ KmeansDone(r)
  \/ RasterDone(r)
  \/ HandlerRespond(r)
  \/ PageRender(r)

Next == \E r \in Reqs : Step(r)

Spec == Init /\ [][Next]_vars

(***************************************************************************)
(* Two requests in flight at once: the event loop runs one continuation at *)
(* a time, of either request, in any order.  The remote answers are a      *)
(* sample of those of Spec.                                                *)
(***************************************************************************)
TwoReqs == {1, 2}

InputsTwo ==
  {InitReq("custom_hat", "GET", Str(<<"7">>)), InitReq("custom_hat", "GET", Arr),
   InitReq("member", "POST", Num(7))}

\* the answers sampled: three profile answers; 429 and thrown errors as failures of
\* the download, one at most and none before a k-means palette; two avatars
SampleAnswers(q) ==
  /\ q.profile \in {"none", "url", "status", "nobody"}
  /\ \A i \in 1..Len(q.log) :
       (q.log[i].ev = "resp" /\ q.log[i].url.host = "res.cloudinary.com")
         => q.log[i].kind \in {"ok", "s429", "throw"}
  /\ Cardinality({i \in 1..Len(q.log) : q.log[i].ev = "wait"})
       <= (IF UsesKmeans(q.variant) THEN 0 ELSE 1)
  /\ q.img \in {NoImage, PatternImage(ResizeTo, ResizeTo, 0)}
                \cup {PatternImage(19, 19, p) : p \in {0, 1}}
  /\ q.failed \notin {"decode", "palette", "raster"}

InitTwo == rq \in [TwoReqs -> InputsTwo]

NextTwo ==
  \E r \in TwoReqs :
    \/ HandlerStart(r) /\ SampleAnswers(rq'[r])
    \/ PageStart(r) /\ SampleAnswers(rq'[r])
    \/ ProfileDone(r) /\ SampleAnswers(rq'[r])
    \/ FetchDone(r) /\ SampleAnswers(rq'[r])
    \/ TimerFires(r) /\ SampleAnswers(rq'[r])
    \/ Unwind(r) /\ SampleAnswers(rq'[r])
    \/ DownloadSettled(r) /\ SampleAnswers(rq'[r])
    \/ DecodeDone(r) /\ SampleAnswers(rq'[r])
    \/ KmeansDone(r) /\ SampleAnswers(rq'[r])
    \/ RasterDone(r) /\ SampleAnswers(rq'[r])
    \/ HandlerRespond(r) /\ SampleAnswers(rq'[r])
    \/ PageRender(r) /\ SampleAnswers(rq'[r])

SpecTwo == InitTwo /\ [][NextTwo]_vars

(***************************************************************************)
(* fetchWithRetry called on its own, with any retry count: the request is  *)
(* the caller, suspended at `await fetchWithRetry(url, retries)`.          *)
(***************************************************************************)
InitRetry ==
  rq \in [Reqs ->
           {CallFetchWithRetry([InitReq("custom_hat", "GET", Str(<<"7">>)) EXCEPT !.profile = "url"],
                               AvatarProxyUrl(AvatarUrlOf("url")), retries, DefaultBackoff)
              : retries \in 0..MaxRetries}]

NextRetry == \E r \in Reqs : FetchDone(r) \/ TimerFires(r) \/ Unwind(r)

SpecRetry == InitRetry /\ [][NextRetry]_vars

(***************************************************************************)
(* Palette extraction on its own: generateImage from the point where the   *)
(* avatar has been downloaded at the first attempt, for every variant.     *)
(***************************************************************************)
\* generateImage suspended at `await sharp(avatarBuffer)...toBuffer(...)`
AvatarDownloaded(q0) ==
  LET q1 == CallProfileLookup(IF q0.variant \in ApiVariants THEN SetCorsHeaders(q0) ELSE q0)
      q2 == [q1 EXCEPT !.profile = "url",
                       !.log = Append(@, RespEv(ProfileUrl(q0.fid), "url", 0))]
      q3 == CallFetchWithRetry(q2, AvatarProxyUrl(AvatarUrlOf("url")),
                               DefaultRetries, DefaultBackoff)
  IN  [q3 EXCEPT !.log = Append(@, RespEv(Top(q3).url, "ok", Top(q3).retries)),
                 !.fwr = ResolvedBody(1), !.stack = <<>>, !.pc = "decode"]

InputsGrid ==
  {AvatarDownloaded(InitReq(v, "GET", Str(<<"7">>))) : v \in ApiVariants}
    \cup {AvatarDownloaded(InitReq(v, "POST", Num(7))) : v \in FrameVariants}

InitGrid == rq \in [Reqs -> InputsGrid]

NextGrid == \E r \in Reqs : DecodeDone(r) \/ KmeansDone(r) \/ RasterDone(r)

SpecGrid == InitGrid /\ [][NextGrid]_vars

(***************************************************************************)
(* The API handlers when nothing stays pending: every awaited operation    *)
(* (fetch, body read, timer, sharp, k-means) eventually returns or throws, *)
(* and the event loop then runs the continuation.                          *)
(***************************************************************************)
InputsLive ==
  {InitReq(v, m, f) : v \in {"custom_hat", "custom_member"}, m \in {"GET", "OPTIONS"},
                      f \in {Arr, Str(<<>>), Str(<<"7">>)}}

InitLive == rq \in [Reqs -> InputsLive]

\* the answers sampled: an attempt of the download fails by a 429 or a thrown
\* error (any number of them, in any mix); everything else is as in Spec
SampleLive(q) ==
  \A i \in 1..Len(q.log) : q.log[i].kind \notin {"bodyfail", "status"}

NextLive ==
  \E r \in Reqs :
    \/ HandlerStart(r)
    \/ ProfileDone(r) /\ SampleLive(rq'[r])
    \/ FetchDone(r) /\ SampleLive(rq'[r])
    \/ TimerFires(r)
    \/ Unwind(r)
    \/ DownloadSettled(r)
    \/ DecodeDone(r)
    \/ KmeansDone(r)
    \/ RasterDone(r)
    \/ HandlerRespond(r)

SpecLive == InitLive /\ [][NextLive]_vars /\ WF_vars(NextLive)

(***************************************************************************)
(* constructSvgStringWithColors on its own: called with any prefix of a    *)
(* palette, any prefix of the variant's colour indices, and any fid.       *)
(***************************************************************************)
\* the fid numbers around the thresholds of getColorForFid, and one that is no number
FidsSvg ==
  {Str(<<"7">>), Str(<<"9", "9", "9">>), Str(<<"1", "0", "0", "0">>),
   Str(<<"9", "9", "9", "9">>), Str(<<"1", "0", "0", "0", "0">>),
   Str(<<"1", "9", "9", "9", "9">>), Str(<<"2", "0", "0", "0", "0">>),
   Str(<<"9", "9", "9", "9", "9">>), Str(<<"1", "0", "0", "0", "0", "0">>),
   Str(<<"a", "b">>)}

\* the palettes of the decoded avatars with two pixels per cell and one left over
PalettesSvg(v) ==
  {PaletteLoop(<<>>, img, v, 0) :
     img \in {PatternImage(2 * GridSizeX(v) + 1, 2 * GridSizeY(v) + 1, p) : p \in 0..MaxPattern}}

Prefixes(seq, lens) == {SubSeq(seq, 1, n) : n \in {k \in lens : k <= Len(seq)}}

\* generateImage about to call constructSvgStringWithColors(palette, pathColorIndices, fidNumber)
SvgCallArgs(q, palette, pathColorIndices) ==
  [f \in DOMAIN q \cup {"pathColorIndices"} |->
     CASE f = "pathColorIndices" -> pathColorIndices
       [] f = "palette" -> palette
       [] f = "pc" -> "svgcall"
       [] OTHER -> q[f]]

CallsOf(v) ==
  {SvgCallArgs(InitReq(v, "GET", fid), palette, pathColorIndices) :
     fid \in FidsSvg,
     palette \in UNION {Prefixes(full, {0, 1, 40, Len(full)}) : full \in PalettesSvg(v)},
     pathColorIndices \in Prefixes(PathColorIndices(v), {0, 3, Len(PathColorIndices(v))})}

InputsSvg == UNION {CallsOf(v) : v \in Variants}

InitSvg == rq \in [Reqs -> InputsSvg]

\* the call returns the markup
SvgCall(r) ==
  /\ rq[r].pc = "svgcall"
  /\ Set(r, [rq[r] EXCEPT !.svg = ConstructSvgStringWithColors(rq[r].variant, rq[r].palette,
                                     rq[r].pathColorIndices, ToNumber(rq[r].fid)),
                          !.pc = "svgdone"])

NextSvg == \E r \in Reqs : SvgCall(r)

SpecSvg == InitSvg /\ [][NextSvg]_vars

(***************************************************************************)
(* The frame pages' reducer: the state after each action dispatched to it, *)
(* starting from initialState.                                             *)
(***************************************************************************)
\* const initialState = { active: "1", total_button_presses: 0 }
InitialState == [active |-> "1", total_button_presses |-> 0]

\* an action: with or without a post body, whose untrustedData has or lacks a buttonIndex
NoPostBody == [postBody |-> FALSE, buttonIndex |-> Undefined]
PostBody(buttonIndex) == [postBody |-> TRUE, buttonIndex |-> buttonIndex]
ButtonIndices == {0, 1, 2, 3, 4, 10}
Actions == {NoPostBody, PostBody(Undefined)} \cup {PostBody(Num(n)) : n \in ButtonIndices}

\* action.postBody?.untrustedData.buttonIndex
ButtonIndexOf(action) == IF action.postBody THEN action.buttonIndex ELSE Undefined

\* only actions with a post body are counted
Reducer_CountsPosts(state, action) ==
  [total_button_presses |-> state.total_button_presses + (IF action.postBody THEN 1 ELSE 0),
   active |-> IF ~Falsy(ButtonIndexOf(action)) THEN ToString(ButtonIndexOf(action).num)
              ELSE "1"]

\* without a buttonIndex the active button stays what it was
Reducer_KeepsActive(state, action) ==
  [total_button_presses |-> state.total_button_presses + 1,
   active |-> IF ~Falsy(ButtonIndexOf(action)) THEN ToString(ButtonIndexOf(action).num)
              ELSE state.active]

\* reducer
Reducer(state, action) ==
  [total_button_presses |-> state.total_button_presses + 1,
   active |-> IF ~Falsy(ButtonIndexOf(action)) THEN ToString(ButtonIndexOf(action).num)
              ELSE "1"]

\* a frame page: its state, the number of actions dispatched so far and the last one
InitPage(v) ==
  [variant |-> v, pc |-> "frame", state |-> InitialState, dispatched |-> 0,
   action |-> NoPostBody]

InitFrame == rq \in [Reqs -> {InitPage(v) : v \in {"member", "opepen_b"}}]

\* dispatch(action): state = reducer(state, action)
Dispatch(r) ==
  /\ rq[r].pc = "frame"
  /\ rq[r].dispatched < MaxPresses
  /\ \E action \in Actions :
       Set(r, [rq[r] EXCEPT !.state = Reducer(rq[r].state, action),
                            !.dispatched = @ + 1,
                            !.action = action])

NextFrame == \E r \in Reqs : Dispatch(r)

SpecFrame == InitFrame /\ [][NextFrame]_vars

(***************************************************************************)
(* Vocabulary of the properties                                            *)
(***************************************************************************)
ApiReqs == {r \in Reqs : rq[r].variant \in ApiVariants}
FrameReqs == {r \in Reqs : rq[r].variant \in FrameVariants}

Fetches(q) == {i \in 1..Len(q.log) : q.log[i].ev = "fetch"}
Waits(q) == {i \in 1..Len(q.log) : q.log[i].ev = "wait"}
AvatarResponses(q) ==
  {i \in 1..Len(q.log) : q.log[i].ev = "resp" /\ q.log[i].url.host # "searchcaster.xyz"}

\* the number of the attempt whose fetch, response or wait is at place i of the log
AttemptAt(q, i) == Cardinality({j \in AvatarFetches(q) : j <= i})

BadRequest == [status |-> 400, body |-> "Bad Request", ctype |-> "application/json"]
ImageNotFound == [status |-> 404, body |-> "Image not found", ctype |-> "none"]

RECURSIVE Pow2(_)
Pow2(k) == IF k <= 0 THEN 1 ELSE 2 * Pow2(k - 1)

PaletteComplete(q) == Len(q.palette) = GridSizeX(q.variant) * GridSizeY(q.variant)

(***************************************************************************)
(* C1  A request whose fid is not a string (absent, or an array)           *)
(***************************************************************************)
\* C1 as stated: every API request whose fid is not a string is answered 400 with
\* {error: 'Bad Request'} and makes no network call.
C1_NonStringFidIs400 ==
  \A r \in ApiReqs :
    ~FidIsString(rq[r].fid) =>
      /\ Fetches(rq[r]) = {}
      /\ rq[r].pc = "done" => rq[r].responses = <<BadRequest>>

\* C1 amended: every API request whose fid is not a string makes no network call
\* and, unless its method is OPTIONS, is answered 400 with {error: 'Bad Request'};
\* an OPTIONS request is answered 200 with an empty body whatever its fid.
C1_NonStringFidIs400UnlessOptions ==
  \A r \in ApiReqs :
    (rq[r].fid.type # "string") =>
      /\ Fetches(rq[r]) = {}
      /\ rq[r].pc \in {"start", "done"}
      /\ rq[r].pc = "done" =>
           /\ Len(rq[r].responses) = 1
           /\ rq[r].method # "OPTIONS" => rq[r].responses[1] = BadRequest
           /\ rq[r].method = "OPTIONS" =>
                rq[r].responses[1].status = 200 /\ rq[r].responses[1].body = ""

C1_Witness ==
  \E r \in ApiReqs :
    /\ rq[r].fid = Arr
    /\ rq[r].method = "GET"
    /\ rq[r].pc = "done"
    /\ rq[r].responses = <<BadRequest>>

(***************************************************************************)
(* C2  Fail-soft                                                           *)
(***************************************************************************)
\* C2: whichever step of generateImage fails after input validation (profile lookup,
\* avatar download, decoding, palette extraction, rasterization), generateImage of an
\* API handler returns null and the handler answers 404 'Image not found': never a
\* 500, a 200 or an error that leaves generateImage.
C2_FailSoft ==
  \A r \in ApiReqs :
    rq[r].failed # "none" =>
      /\ rq[r].gen = Resolved("null")
      /\ rq[r].pc \in {"gen_done", "done"}
      /\ rq[r].pc = "done" => rq[r].responses = <<ImageNotFound>>

C2_Witness ==
  \E r \in ApiReqs :
    /\ rq[r].failed = "download"
    /\ rq[r].fwr.state = "rejected"
    /\ rq[r].pc = "done"
    /\ rq[r].responses = <<ImageNotFound>>

(***************************************************************************)
(* C3  A profile without an avatar URL                                     *)
(***************************************************************************)
NoAvatarOutcomes == {"notarray", "empty", "nobody", "emptyurl"}

\* C3: when the profile lookup succeeds but yields no avatar URL, generateImage
\* returns null without throwing and without any avatar download; the API handler
\* answers 404 and the frame page shows the fallback image.
C3_NoAvatarUrl ==
  \A r \in Reqs :
    rq[r].profile \in NoAvatarOutcomes =>
      /\ AvatarFetches(rq[r]) = {}
      /\ rq[r].gen = Resolved("null")
      /\ rq[r].failed = "none"
      /\ rq[r].pc \in {"gen_done", "done"}
      /\ rq[r].pc = "done" =>
           IF r \in ApiReqs THEN rq[r].responses = <<ImageNotFound>>
           ELSE rq[r].page.src = FallbackImageUrl(rq[r].variant)

C3_Witness ==
  \E r \in FrameReqs :
    /\ rq[r].profile = "emptyurl"
    /\ rq[r].pc = "done"
    /\ rq[r].page.src = FallbackImageUrl(rq[r].variant)

(***************************************************************************)
(* C4  fetchWithRetry terminates and surfaces the last error               *)
(***************************************************************************)
InDownload(q) == q.pc \in {"fetch", "wait", "settle"}

\* a number that every step of fetchWithRetry makes smaller
DownloadMeasure(q) ==
  CASE q.pc = "fetch" -> 2 * Top(q).retries + DefaultRetries + 3
    [] q.pc = "wait" -> 2 * Top(q).retries + DefaultRetries + 2
    [] q.pc = "settle" -> Len(q.stack)
    [] OTHER -> 0

FailedAttempts(q) == {i \in AvatarResponses(q) : q.log[i].kind # "ok"}

RejectsWithLastError(q) ==
  /\ q.fwr.state = "rejected" =>
       /\ NumAvatarFetches(q) = DefaultRetries + 1
       /\ Cardinality(FailedAttempts(q)) = DefaultRetries + 1
       /\ q.fwr.err.attempt = DefaultRetries + 1
       /\ \E i \in AvatarResponses(q) :
            /\ \A j \in AvatarResponses(q) : j <= i
            /\ q.fwr.err.kind = q.log[i].kind
  /\ (Cardinality(FailedAttempts(q)) = DefaultRetries + 1 /\ q.pc \notin {"fetch", "wait"})
       => q.fwr.state = "rejected"

\* C4: fetchWithRetry terminates for every sequence of remote outcomes (each of its
\* steps lowers a natural number); when every attempt fails it stops once the retry
\* count is used up and rejects with the error raised by the final attempt.
C4_TerminatesWithLastError ==
  /\ [](\A r \in Reqs : InDownload(rq[r]) => DownloadMeasure(rq[r]) >= 1)
  /\ [][\A r \in Reqs :
          (InDownload(rq[r]) /\ InDownload(rq'[r]))
            => DownloadMeasure(rq'[r]) < DownloadMeasure(rq[r])]_vars
  /\ [](\A r \in Reqs : RejectsWithLastError(rq[r]))

C4_Witness ==
  \E r \in Reqs :
    /\ rq[r].pc = "settle"
    /\ rq[r].fwr.state = "rejected"
    /\ rq[r].fwr.err = [attempt |-> DefaultRetries + 1, kind |-> "throw"]
    /\ \E i \in AvatarResponses(rq[r]) : AttemptAt(rq[r], i) = 1 /\ rq[r].log[i].kind = "s429"

(***************************************************************************)
(* C5  Number of fetch attempts with the default parameters                *)
(***************************************************************************)
\* C5 as stated: with the default parameters the avatar download makes at most 3
\* fetch attempts in total.
C5_AtMostThreeAttempts == \A r \in Reqs : NumAvatarFetches(rq[r]) <= 3

\* C5 amended: with the default parameters (3 retries) the avatar download makes at
\* most 4 fetch attempts in total, the first one and 3 retries.
C5_AtMostRetriesPlusOneAttempts ==
  \A r \in Reqs : NumAvatarFetches(rq[r]) <= DefaultRetries + 1

C5_Witness ==
  \E r \in Reqs :
    /\ NumAvatarFetches(rq[r]) = DefaultRetries + 1
    /\ rq[r].pc = "decode"

(***************************************************************************)
(* C6  The backoff schedule                                                *)
(***************************************************************************)
\* the waits are 300, 600, 1200, ...: the k-th is DefaultBackoff * 2^(k-1)
WaitsDouble(q) ==
  \A i \in Waits(q) :
    q.log[i].n = DefaultBackoff * Pow2(Cardinality({j \in Waits(q) : j < i}))

\* between two consecutive fetches of the avatar lies exactly one wait, and every
\* wait lies between two attempts or is the one the download is sitting in
OneWaitBetweenAttempts(q) ==
  /\ \A i \in AvatarFetches(q) :
       AttemptAt(q, i) = Cardinality({j \in Waits(q) : j < i}) + 1
  /\ \A i \in Waits(q) : i - 1 \in FailedAttempts(q)
  /\ Cardinality(Waits(q)) = NumAvatarFetches(q) - (IF q.pc = "wait" THEN 0 ELSE 1)
       \/ NumAvatarFetches(q) = 0

\* C6: the wait before the k-th retry of the avatar download is 300 * 2^(k-1) ms;
\* exactly one wait happens between two consecutive attempts, whether the failed
\* attempt was a 429 response or a thrown exception, in any mix of the two.
C6_BackoffSchedule ==
  \A r \in Reqs : WaitsDouble(rq[r]) /\ OneWaitBetweenAttempts(rq[r])

C6_Witness ==
  \E r \in Reqs :
    LET q == rq[r]
    IN  /\ q.pc = "fetch"
        /\ Cardinality(Waits(q)) = 3
        /\ [i \in 1..3 |-> q.log[CHOOSE w \in Waits(q) :
                                   Cardinality({j \in Waits(q) : j <= w}) = i].n]
             = <<300, 600, 1200>>
        /\ \E i, j \in FailedAttempts(q) : q.log[i].kind = "s429" /\ q.log[j].kind = "throw"

(***************************************************************************)
(* C7  A 429 is retried; a 2xx ends the download                           *)
(***************************************************************************)
\* a 429 while retries remain is followed by the backoff wait and then by a fetch
\* of the same URL
RateLimitIsRetried(q) ==
  \A i \in AvatarResponses(q) :
    (q.log[i].kind = "s429" /\ q.log[i].left > 0) =>
      /\ i + 1 <= Len(q.log)
      /\ q.log[i + 1].ev = "wait"
      /\ q.log[i + 1].n = DefaultBackoff * Pow2(AttemptAt(q, i) - 1)
      /\ IF i + 2 <= Len(q.log) THEN q.log[i + 2] = FetchEv(q.log[i].url)
         ELSE q.pc = "wait"

\* C7 as stated: a 429 while retries remain is followed, after the backoff wait, by
\* another fetch of the same URL; as soon as one attempt returns a 2xx response,
\* fetchWithRetry resolves with that attempt's body and no further fetch is made.
C7_First2xxEndsDownload ==
  \A r \in Reqs :
    /\ RateLimitIsRetried(rq[r])
    /\ \A i \in AvatarResponses(rq[r]) :
         Is2xx(rq[r].log[i].kind) =>
           /\ i = Len(rq[r].log)
           /\ rq[r].fwr = ResolvedBody(AttemptAt(rq[r], i))

\* C7 amended: a 429 while retries remain is followed, after the backoff wait, by
\* another fetch of the same URL; as soon as one attempt returns a 2xx response
\* whose body is read, fetchWithRetry resolves with that attempt's body and no
\* further fetch is made; a 2xx response whose body cannot be read is handled like
\* a thrown exception (retried while retries remain).
C7_First2xxWithBodyEndsDownload ==
  \A r \in Reqs :
    /\ RateLimitIsRetried(rq[r])
    /\ \A i \in AvatarResponses(rq[r]) :
         /\ rq[r].log[i].kind = "ok" =>
              /\ i = Len(rq[r].log)
              /\ rq[r].fwr = ResolvedBody(AttemptAt(rq[r], i))
         /\ (rq[r].log[i].kind = "bodyfail" /\ rq[r].log[i].left > 0) =>
              /\ i + 1 <= Len(rq[r].log)
              /\ rq[r].log[i + 1].ev = "wait"
    /\ rq[r].fwr.state = "resolved" =>
         \E i \in AvatarResponses(rq[r]) : rq[r].log[i].kind = "ok"

C7_Witness ==
  \E r \in Reqs :
    LET q == rq[r]
    IN  /\ Len(q.log) = 7
        /\ q.log[4].kind = "s429"
        /\ q.log[5] = WaitEv(DefaultBackoff)
        /\ q.log[6] = FetchEv(q.log[3].url)
        /\ q.log[7].kind = "ok"
        /\ q.fwr = ResolvedBody(2)
        /\ q.pc = "decode"

(***************************************************************************)
(* C8  The palette is row-major                                            *)
(***************************************************************************)
RowMajor(q) ==
  \A y \in 0..(GridSizeY(q.variant) - 1), x \in 0..(GridSizeX(q.variant) - 1) :
    (x + y * GridSizeX(q.variant) < Len(q.palette)) =>
      q.palette[x + y * GridSizeX(q.variant) + 1] = CellColor(q.img, q.variant, x, y)

\* C8: palette extraction yields exactly gx * gy entries in row-major order: the
\* entry at index x + y * gx is the colour of the cell at column x, row y; in the
\* k-means variants, where each cell is awaited, cell (x, y) is awaited with exactly
\* the x + y * gx cells before it in place.
C8_PaletteRowMajor ==
  \A r \in Reqs :
    /\ rq[r].pc = "raster" => PaletteComplete(rq[r]) /\ RowMajor(rq[r])
    /\ rq[r].svg # <<>> => PaletteComplete(rq[r])
    /\ rq[r].pc = "kmeans" =>
         /\ Len(rq[r].palette) = rq[r].x + rq[r].y * GridSizeX(rq[r].variant)
         /\ rq[r].x < GridSizeX(rq[r].variant) /\ rq[r].y < GridSizeY(rq[r].variant)
         /\ Len(rq[r].palette) > 0 =>
              rq[r].palette[Len(rq[r].palette)] =
                CellColor(rq[r].img, rq[r].variant,
                          (Len(rq[r].palette) - 1) % GridSizeX(rq[r].variant),
                          (Len(rq[r].palette) - 1) \div GridSizeX(rq[r].variant))

C8_Witness ==
  \E r \in Reqs :
    LET q == rq[r]
    IN  /\ UsesKmeans(q.variant)
        /\ q.pc = "raster"
        /\ Len(q.palette) = 81
        /\ q.palette[2] # q.palette[GridSizeX(q.variant) + 1]
        /\ q.palette[2] = CellColor(q.img, q.variant, 1, 0)

(***************************************************************************)
(* C9  No placeholder is left in the markup                                *)
(***************************************************************************)
\* C9: in every variant the markup built by constructSvgStringWithColors for a full
\* palette contains no remaining COLOR token.
C9_NoColorTokenLeft ==
  \A r \in Reqs :
    (rq[r].svg # <<>> /\ PaletteComplete(rq[r])) =>
      \A i \in 1..Len(rq[r].svg) : rq[r].svg[i] # ColorToken

(***************************************************************************)
(* C10 One response per request; image/png only on a complete PNG          *)
(***************************************************************************)
\* C10: every request to an API handler receives exactly one response, with status
\* 200, 400, 404 or 500; Content-Type image/png is set only on a 200 response that
\* carries a completely generated PNG, never on a 400, 404, 500 or OPTIONS response.
C10_OneResponse ==
  \A r \in ApiReqs :
    LET q == rq[r]
    IN  /\ Len(q.responses) = (IF q.pc = "done" THEN 1 ELSE 0)
        /\ q.headers.ctype = "image/png" => q.pc = "done"
        /\ \A i \in 1..Len(q.responses) :
             /\ q.responses[i].status \in {200, 400, 404, 500}
             /\ q.responses[i].ctype = "image/png" =>
                  /\ q.responses[i].status = 200
                  /\ q.responses[i].body = "png"
                  /\ q.method # "OPTIONS"
                  /\ q.gen = Resolved("png")
                  /\ q.failed = "none"
                  /\ q.svg # <<>> /\ PaletteComplete(q)
             /\ (q.responses[i].status = 200 /\ q.method # "OPTIONS") =>
                  q.responses[i].ctype = "image/png"

C10_Witness ==
  \E r \in ApiReqs :
    /\ rq[r].pc = "done"
    /\ rq[r].responses = <<[status |-> 200, body |-> "png", ctype |-> "image/png"]>>

(***************************************************************************)
(* C11 Requests share no mutable state                                     *)
(***************************************************************************)
\* the response a request gets when it runs alone, from its own method and fid and
\* the answers it received: the profile, the avatar attempts, the decoded data
AnsweredAlone(q) ==
  IF q.method = "OPTIONS" THEN [status |-> 200, body |-> "", ctype |-> "none"]
  ELSE IF ~FidIsString(q.fid) THEN BadRequest
  ELSE IF /\ ~Falsy(q.fid)
          /\ q.profile = "url"
          /\ \E i \in AvatarResponses(q) : q.log[i].kind = "ok"
          /\ q.failed = "none"
       THEN [status |-> 200, body |-> "png", ctype |-> "image/png"]
       ELSE ImageNotFound

\* the retry budget of the innermost call counts this request's attempts only
OwnRetryBudget(q) ==
  q.pc \in {"fetch", "wait"} =>
    /\ Len(q.stack) = NumAvatarFetches(q)
    /\ Top(q).retries = DefaultRetries - (NumAvatarFetches(q) - 1)
    /\ Top(q).backoff = DefaultBackoff * Pow2(NumAvatarFetches(q) - 1)

\* what a step adds to a palette are cells of the request's own avatar, in order;
\* the markup is built from the request's own palette and fid
OwnPalette(q, q2) ==
  /\ q2.palette # q.palette =>
       /\ Len(q2.palette) > Len(q.palette)
       /\ SubSeq(q2.palette, 1, Len(q.palette)) = q.palette
       /\ \A i \in (Len(q.palette) + 1)..Len(q2.palette) :
            q2.palette[i] = CellColor(q2.img, q2.variant, (i - 1) % GridSizeX(q2.variant),
                                      (i - 1) \div GridSizeX(q2.variant))
  /\ q2.svg # q.svg =>
       /\ PaletteComplete(q2)
       /\ q2.svg = ConstructSvgStringWithColors(q2.variant, q2.palette,
                     PathColorIndices(q2.variant), ToNumber(q2.fid))

\* C11: requests share no mutable state. When two requests run with their
\* suspension points interleaved in any order, every step changes the state of one
\* request only; each request's retry budget counts its own attempts and its palette
\* holds the cells of its own avatar; and each request's response (status and image)
\* is the one it gets alone from the same fid and the same remote answers.
C11_NoSharedState ==
  /\ [][\E r \in TwoReqs : \A s \in TwoReqs \ {r} : rq'[s] = rq[s]]_vars
  /\ [][\A r \in TwoReqs : OwnPalette(rq[r], rq'[r])]_vars
  /\ [](\A r \in TwoReqs :
          /\ OwnRetryBudget(rq[r])
          /\ (rq[r].pc = "done" /\ rq[r].variant \in ApiVariants)
               => rq[r].responses = <<AnsweredAlone(rq[r])>>
          /\ (rq[r].pc = "done" /\ rq[r].variant \in FrameVariants)
               => rq[r].page.src = FrameImageSrc(rq[r].variant,
                    IF rq[r].profile = "url" /\ rq[r].failed = "none"
                    THEN "png64" ELSE "null"))

\* both requests are in flight: one waits for its retry with a palette still to
\* come, the other is half way through the palette of another avatar
C11_Witness ==
  /\ DOMAIN rq = TwoReqs
  /\ rq[1].variant = "custom_hat" /\ rq[2].variant = "member"
  /\ rq[1].pc = "wait" /\ Top(rq[1]).retries = DefaultRetries
  /\ rq[2].pc = "kmeans" /\ Len(rq[2].palette) = 40
  /\ rq[2].stack = <<>>

(***************************************************************************)
(* C12 The CORS preflight                                                  *)
(***************************************************************************)
Preflight == [status |-> 200, body |-> "", ctype |-> "none"]

\* C12: an OPTIONS request to an API handler is answered with status 200 and an
\* empty body before fid is examined: whatever its fid (absent, an array, empty or
\* any string) it never yields a 400 and never triggers a profile lookup or an
\* avatar download.
C12_OptionsAnswered200 ==
  \A r \in ApiReqs :
    rq[r].method = "OPTIONS" =>
      /\ rq[r].log = <<>>
      /\ rq[r].gen = Pending
      /\ rq[r].pc \in {"start", "done"}
      /\ rq[r].pc = "done" => rq[r].responses = <<Preflight>>
      /\ \A i \in 1..Len(rq[r].responses) : rq[r].responses[i].status # 400

C12_Witness ==
  \E r \in ApiReqs :
    /\ rq[r].method = "OPTIONS"
    /\ rq[r].fid = Undefined
    /\ rq[r].pc = "done"
    /\ rq[r].responses = <<Preflight>>

(***************************************************************************)
(* C13 What the frame page shows                                           *)
(***************************************************************************)
DataUri(base64) == "data:image/png;base64," \o base64

\* the fallback URL is shown exactly when generateImage returned null (or an empty
\* string), and the download button of page.tsx then links to it as well
ShowsFallbackOnNull(q) ==
  /\ q.gen.value \in {"null", ""} <=> q.page.src = FallbackImageUrl(q.variant)
  /\ q.variant = "member" =>
       q.page.href =
         IF q.gen.value \in {"null", ""} THEN FallbackImageUrl(q.variant)
         ELSE "https://memberfy.vercel.app/api/custom_member/" \o FidText(q.fid)
  /\ q.variant # "member" => q.page.href = "none"

\* C13 as stated: on the frame page the frame image is the generated PNG as a
\* data:image/png;base64 URI exactly when generateImage returned a non-empty string,
\* and the fallback image URL whenever it returned null; the download button links
\* to the API image for the fid only in the first case.
C13_FrameShowsGeneratedPng ==
  \A r \in FrameReqs :
    rq[r].pc = "done" =>
      /\ rq[r].gen.value \notin {"null", ""}
           <=> (rq[r].page.src = DataUri(PngResult(rq[r].variant)) /\ rq[r].svg # <<>>)
      /\ ShowsFallbackOnNull(rq[r])

\* C13 amended: the frame image is the string generateImage returned, as a
\* data:image/png;base64 URI, exactly when that string is non-empty, and the fallback
\* image URL when generateImage returned null or an empty string. The string is the
\* generated PNG, except in generate-image.tsx for a message without fid, where it
\* is the content of the fallback file and nothing was generated. The download
\* button (page.tsx) links to the API image for the fid only in the first case.
C13_FrameShowsReturnedString ==
  \A r \in FrameReqs :
    rq[r].pc = "done" =>
      /\ rq[r].gen.value \notin {"null", ""} <=> rq[r].page.src = DataUri(rq[r].gen.value)
      /\ rq[r].gen.value \in {"null", "", "fallback64", PngResult(rq[r].variant)}
      /\ rq[r].gen.value = PngResult(rq[r].variant) =>
           rq[r].svg # <<>> /\ PaletteComplete(rq[r]) /\ rq[r].failed = "none"
      /\ rq[r].gen.value \in {"fallback64", ""} =>
           /\ rq[r].variant \in {"opepen_a", "opepen_b"}
           /\ Falsy(rq[r].fid)
           /\ rq[r].log = <<>> /\ rq[r].svg = <<>>
      /\ ShowsFallbackOnNull(rq[r])

C13_Witness ==
  \E r \in FrameReqs :
    /\ rq[r].variant = "member"
    /\ rq[r].pc = "done"
    /\ rq[r].gen.value = "png64"
    /\ rq[r].page = [src |-> "data:image/png;base64,png64",
                     href |-> "https://memberfy.vercel.app/api/custom_member/7"]

(***************************************************************************)
(* C14 r retries make r + 1 attempts at most                               *)
(***************************************************************************)
\* the retry count the outermost call was given
GivenRetries(q) == q.stack[1].retries

\* C14: for any retry count r >= 0, fetchWithRetry calls fetch at most r + 1 times,
\* and exactly r + 1 times when every attempt fails: each failed attempt consumes
\* exactly one retry (the i-th call runs with r - (i - 1) retries and the calls nest
\* one per attempt), and a rejection of a recursive call is never caught and retried
\* by an enclosing call, whatever the mix of 429 responses and thrown errors.
C14_RetriesPlusOneAttempts ==
  \A r \in Reqs :
    LET q == rq[r]
    IN  q.stack # <<>> =>
          /\ NumAvatarFetches(q) <= GivenRetries(q) + 1
          /\ \A i \in 1..Len(q.stack) : q.stack[i].retries = GivenRetries(q) - (i - 1)
          /\ q.pc \in {"fetch", "wait"} => Len(q.stack) = NumAvatarFetches(q)
          /\ Cardinality(Waits(q)) = NumAvatarFetches(q) - (IF q.pc = "wait" THEN 0 ELSE 1)
          /\ Cardinality(FailedAttempts(q)) =
               NumAvatarFetches(q) - (IF q.pc = "fetch" \/ q.fwr.state = "resolved" THEN 1 ELSE 0)
          /\ q.fwr.state = "rejected" =>
               /\ NumAvatarFetches(q) = GivenRetries(q) + 1
               /\ q.fwr.err.attempt = GivenRetries(q) + 1
          /\ (q.pc = "settle" /\ Cardinality(FailedAttempts(q)) = GivenRetries(q) + 1)
               => q.fwr.state = "rejected"

C14_Witness ==
  \E r \in Reqs :
    LET q == rq[r]
    IN  /\ q.pc = "settle" /\ Len(q.stack) = 1
        /\ GivenRetries(q) = 2
        /\ q.fwr.state = "rejected"
        /\ NumAvatarFetches(q) = 3
        /\ \E i, j \in FailedAttempts(q) :
             i < j /\ q.log[i].kind = "throw" /\ q.log[j].kind = "s429"

(***************************************************************************)
(* C15 The order of the steps of one request                               *)
(***************************************************************************)
ProfileFetches(q) ==
  {i \in 1..Len(q.log) : q.log[i].ev = "fetch" /\ q.log[i].url.host = "searchcaster.xyz"}

\* the place of a step in the pipeline
StepRank(pc) ==
  CASE pc = "start" -> 0
    [] pc = "profile" -> 1
    [] pc \in {"fetch", "wait", "settle"} -> 2
    [] pc = "decode" -> 3
    [] pc = "kmeans" -> 4
    [] pc = "raster" -> 5
    [] pc = "gen_done" -> 6
    [] OTHER -> 7

StepsInOrder(q) ==
  /\ Cardinality(ProfileFetches(q)) <= 1
  /\ ProfileFetches(q) \subseteq {1}
  /\ AvatarFetches(q) # {} =>
       /\ q.profile = "url"
       /\ Len(q.log) >= 3
       /\ q.log[1] = FetchEv(ProfileUrl(q.fid))
       /\ q.log[2] = RespEv(ProfileUrl(q.fid), "url", 0)
       /\ \A i \in AvatarFetches(q) :
            i > 2 /\ q.log[i].url = AvatarProxyUrl(AvatarUrlOf("url"))
  /\ (q.pc = "kmeans" \/ q.palette # <<>>) =>
       /\ q.fwr.state = "resolved"
       /\ \E i \in AvatarResponses(q) : i = Len(q.log) /\ q.log[i].kind = "ok"
       /\ q.img # NoImage
  /\ (q.pc = "raster" \/ q.svg # <<>>) => PaletteComplete(q)
  /\ q.profile \in {"throw", "status", "badjson"} =>
       /\ AvatarFetches(q) = {}
       /\ Len(q.log) = 2
       /\ q.gen = Resolved("null")
       /\ q.palette = <<>> /\ q.svg = <<>>

\* C15: the steps of one request happen in a fixed order, and the profile lookup is
\* made at most once and never retried: the avatar download starts only after a
\* profile lookup that returned 2xx with an avatar URL, palette extraction only
\* after a successful download and decode, rasterization only after the whole
\* palette is built; a non-2xx or failed profile lookup ends the request with a
\* null result without any avatar fetch.
C15_StepsInOrder ==
  /\ [](\A r \in Reqs : StepsInOrder(rq[r]))
  /\ [][\A r \in Reqs : StepRank(rq'[r].pc) >= StepRank(rq[r].pc)]_vars

C15_Witness ==
  \E r \in Reqs :
    LET q == rq[r]
    IN  /\ q.pc = "raster"
        /\ UsesKmeans(q.variant)
        /\ PaletteComplete(q)
        /\ Len(q.log) = 7
        /\ q.log[2].kind = "url" /\ q.log[4].kind = "throw" /\ q.log[7].kind = "ok"

(***************************************************************************)
(* C16 Every API request is answered                                       *)
(***************************************************************************)
Answered(q) ==
  /\ q.pc = "done"
  /\ Len(q.responses) = 1
  /\ Cardinality(ProfileFetches(q)) <= 1
  /\ NumAvatarFetches(q) <= DefaultRetries + 1

\* C16: provided every network call and every image operation eventually returns or
\* throws, every request to an API handler eventually receives its response, after
\* at most one profile lookup and at most retries + 1 avatar fetches.
C16_EventuallyAnswered ==
  \A r \in Reqs : (rq[r].variant \in ApiVariants) ~> Answered(rq[r])

C16_Witness ==
  \E r \in ApiReqs :
    /\ Answered(rq[r])
    /\ NumAvatarFetches(rq[r]) = DefaultRetries + 1
    /\ rq[r].responses = <<ImageNotFound>>
    /\ rq[r].failed = "download"

(***************************************************************************)
(* C17 A palette entry is the rounded mean of its cell                     *)
(***************************************************************************)
\* the pixels (column, row) of cell (x, y)
CellPixels(img, v, x, y) ==
  {<<px, py>> : px \in (x * CellWidth(img, v))..((x + 1) * CellWidth(img, v) - 1),
                py \in (y * CellHeight(img, v))..((y + 1) * CellHeight(img, v) - 1)}

\* channel c (0, 1, 2) of the pixel at column px, row py
ChannelAt(img, px, py, c) == Byte(img, (py * img.width + px) * 3 + c)

ChannelValues(img, v, x, y, c) ==
  [p \in CellPixels(img, v, x, y) |-> ChannelAt(img, p[1], p[2], c)]

RECURSIVE SumFn(_)
SumFn(f) ==
  IF DOMAIN f = {} THEN 0
  ELSE LET d == CHOOSE d \in DOMAIN f : TRUE
       IN  f[d] + SumFn([e \in DOMAIN f \ {d} |-> f[e]])

\* e is the mean of the values of f rounded to the nearest integer, halves up:
\* e - 1/2 <= mean < e + 1/2
IsRoundedMean(e, f) ==
  LET n == Cardinality(DOMAIN f)
  IN  /\ 2 * n * e <= 2 * SumFn(f) + n
      /\ 2 * SumFn(f) + n < 2 * n * (e + 1)

IsBetweenMinAndMax(e, f) ==
  /\ \E p \in DOMAIN f : f[p] <= e
  /\ \E p \in DOMAIN f : f[p] >= e

Cells(v) == (0..(GridSizeX(v) - 1)) \X (0..(GridSizeY(v) - 1))

EntryOf(q, x, y) == q.palette[x + y * GridSizeX(q.variant) + 1]

\* C17: in the averaging variants, for a cell with at least one pixel, each channel
\* of the cell's palette entry is the arithmetic mean of that channel over exactly
\* the cellWidth * cellHeight pixels of the cell, rounded to the nearest integer
\* with halves rounded up; it lies between the smallest and the largest value of
\* that channel in the cell.
C17_EntryIsRoundedMean ==
  \A r \in Reqs :
    LET q == rq[r]
    IN  (/\ ~UsesKmeans(q.variant)
         /\ q.pc = "raster"
         /\ CellWidth(q.img, q.variant) * CellHeight(q.img, q.variant) >= 1) =>
          \A cell \in Cells(q.variant), c \in 0..2 :
            LET f == ChannelValues(q.img, q.variant, cell[1], cell[2], c)
                e == EntryOf(q, cell[1], cell[2])[c + 1]
            IN  /\ Cardinality(DOMAIN f)
                     = CellWidth(q.img, q.variant) * CellHeight(q.img, q.variant)
                /\ IsRoundedMean(e, f)
                /\ IsBetweenMinAndMax(e, f)

\* a cell of two pixels whose mean ends in one half: the entry is the next integer
C17_Witness ==
  \E r \in Reqs :
    LET q == rq[r]
    IN  /\ q.variant = "custom_hat"
        /\ q.pc = "raster"
        /\ CellWidth(q.img, q.variant) * CellHeight(q.img, q.variant) = 2
        /\ LET f == ChannelValues(q.img, q.variant, 1, 0, 0)
           IN  /\ 2 * EntryOf(q, 1, 0)[1] = SumFn(f) + 1
               /\ IsRoundedMean(EntryOf(q, 1, 0)[1], f)

(***************************************************************************)
(* C18 The geometry of the grid                                            *)
(***************************************************************************)
\* the pixels (column, row) whose bytes are read for cell (x, y)
PixelsRead(img, v, x, y) ==
  {<<(i \div 3) % img.width, (i \div 3) \div img.width>> :
     i \in BytesRead(x * CellWidth(img, v), y * CellHeight(img, v),
                     CellWidth(img, v), CellHeight(img, v), img.width)}

\* C18: grid cells are floor(width / gx) wide and floor(height / gy) high. The
\* cells are pairwise disjoint (no pixel contributes to two palette entries); cell
\* (x, y) covers columns x*cellWidth .. (x+1)*cellWidth - 1 and rows y*cellHeight ..
\* (y+1)*cellHeight - 1; the remainder pixels with column >= gx*cellWidth or
\* row >= gy*cellHeight are never read.
C18_GridGeometry ==
  \A r \in Reqs :
    LET q == rq[r]
        v == q.variant
        cw == CellWidth(q.img, v)
        ch == CellHeight(q.img, v)
    IN  q.pc = "raster" =>
          /\ cw * GridSizeX(v) <= q.img.width /\ q.img.width < (cw + 1) * GridSizeX(v)
          /\ ch * GridSizeY(v) <= q.img.height /\ q.img.height < (ch + 1) * GridSizeY(v)
          /\ \A cell \in Cells(v) :
               /\ PixelsRead(q.img, v, cell[1], cell[2]) = CellPixels(q.img, v, cell[1], cell[2])
               /\ Cardinality(BytesRead(cell[1] * cw, cell[2] * ch, cw, ch, q.img.width))
                    = 3 * cw * ch
               /\ \A p \in PixelsRead(q.img, v, cell[1], cell[2]) :
                    /\ cell[1] * cw <= p[1] /\ p[1] <= (cell[1] + 1) * cw - 1
                    /\ cell[2] * ch <= p[2] /\ p[2] <= (cell[2] + 1) * ch - 1
                    /\ p[1] < GridSizeX(v) * cw /\ p[2] < GridSizeY(v) * ch
          /\ \A c1, c2 \in Cells(v) :
               c1 # c2 =>
                 /\ PixelsRead(q.img, v, c1[1], c1[2]) \cap PixelsRead(q.img, v, c2[1], c2[2]) = {}
                 /\ BytesRead(c1[1] * cw, c1[2] * ch, cw, ch, q.img.width)
                      \cap BytesRead(c2[1] * cw, c2[2] * ch, cw, ch, q.img.width) = {}

\* an image with pixels left over on both axes, all cells read
C18_Witness ==
  \E r \in Reqs :
    LET q == rq[r]
    IN  /\ q.pc = "raster"
        /\ UsesKmeans(q.variant)
        /\ q.img.width = ResizeTo
        /\ CellWidth(q.img, q.variant) = 2
        /\ PixelsRead(q.img, q.variant, 8, 8) = {<<16, 16>>, <<17, 16>>, <<16, 17>>, <<17, 17>>}
        /\ \A cell \in Cells(q.variant) : <<18, 18>> \notin PixelsRead(q.img, q.variant, cell[1], cell[2])

(***************************************************************************)
(* C19 Palette entries of small images                                     *)
(***************************************************************************)
\* C19: grid averaging has no edge case besides truncation and the zero default: for
\* every decoded image of any width >= 1 and height >= 1, including images with
\* fewer pixels per axis than grid cells, every palette entry is a triple of
\* integers in 0..255.
C19_EntriesAreColours ==
  \A r \in Reqs :
    LET q == rq[r]
    IN  (q.img # NoImage /\ q.img.width >= 1 /\ q.img.height >= 1) =>
          \A i \in 1..Len(q.palette) :
            /\ DOMAIN q.palette[i] = 1..3
            /\ \A c \in 1..3 : q.palette[i][c] \in 0..255

(***************************************************************************)
(* C20 The average does not depend on the order of the pixels              *)
(***************************************************************************)
\* the offsets (x, y) of a cell's pixels as the loops visit them, and two other orders
RowFirst(cw, ch) == [k \in 1..(cw * ch) |-> <<(k - 1) % cw, (k - 1) \div cw>>]
ColumnFirst(cw, ch) == [k \in 1..(cw * ch) |-> <<(k - 1) \div ch, (k - 1) % ch>>]
Reversed(order) == [k \in 1..Len(order) |-> order[Len(order) + 1 - k]]
OrdersOf(order) ==
  {[k \in 1..Len(order) |-> order[p[k]]] :
     p \in {f \in [1..Len(order) -> 1..Len(order)] :
              \A i, j \in 1..Len(order) : f[i] = f[j] => i = j}}

\* the average of cell (x, y) when its pixels are added in the given order
AverageInOrder(img, v, x, y, order) ==
  [c \in 1..3 |->
     LET sum[k \in 0..Len(order)] ==
           IF k = 0 THEN 0
           ELSE Accumulate(sum[k - 1],
                           Byte(img, PixelIndex(x * CellWidth(img, v), y * CellHeight(img, v),
                                                order[k][1], order[k][2], img.width) + (c - 1)))
     IN  RoundDiv(sum[Len(order)], Len(order))]

\* C20: the average colour of a cell is idempotent and independent of the order in
\* which the cell's pixels are visited: computing it again on the same data, or
\* summing the same pixels in any permutation (row-first, column-first, reversed),
\* gives the same triple.
C20_AverageOrderIndependent ==
  \A r \in Reqs :
    LET q == rq[r]
        v == q.variant
        cw == CellWidth(q.img, v)
        ch == CellHeight(q.img, v)
    IN  (~UsesKmeans(v) /\ q.pc = "raster") =>
          \A cell \in Cells(v) :
            LET entry == EntryOf(q, cell[1], cell[2])
            IN  /\ CellColor(q.img, v, cell[1], cell[2]) = entry
                /\ AverageInOrder(q.img, v, cell[1], cell[2], RowFirst(cw, ch)) = entry
                /\ AverageInOrder(q.img, v, cell[1], cell[2], ColumnFirst(cw, ch)) = entry
                /\ AverageInOrder(q.img, v, cell[1], cell[2], Reversed(RowFirst(cw, ch))) = entry
                /\ AverageInOrder(q.img, v, cell[1], cell[2], Reversed(ColumnFirst(cw, ch))) = entry
                /\ cw * ch <= 4 =>
                     \A order \in OrdersOf(RowFirst(cw, ch)) :
                       AverageInOrder(q.img, v, cell[1], cell[2], order) = entry

\* a cell of 2 x 2 pixels with four different red values, visited in different
\* orders by rows and by columns, with the entry the average in reversed order
C20_Witness ==
  \E r \in Reqs :
    LET q == rq[r]
        v == q.variant
        f == ChannelValues(q.img, v, 1, 1, 0)
    IN  /\ ~UsesKmeans(v)
        /\ q.pc = "raster"
        /\ CellWidth(q.img, v) = 2 /\ CellHeight(q.img, v) = 2
        /\ RowFirst(2, 2) # ColumnFirst(2, 2)
        /\ Cardinality({f[p] : p \in DOMAIN f}) = 4
        /\ EntryOf(q, 1, 1) = AverageInOrder(q.img, v, 1, 1, Reversed(RowFirst(2, 2)))
        /\ EntryOf(q, 1, 1)[1] \in 0..255

(***************************************************************************)
(* C21 What constructSvgStringWithColors emits                             *)
(***************************************************************************)
\* the tokens of the markup before the first template path and after the last
BodyStart(v) == IF v = "custom_hat" THEN 3 ELSE 1
BodyEnd(v) == IF v \in {"custom_member", "opepen_b"} THEN 2 ELSE 1

\* the number of tokens of the template paths before path i (from 0)
RECURSIVE Offset(_, _)
Offset(v, i) == IF i = 0 THEN 0 ELSE Offset(v, i - 1) + Len(SvgPaths(v)[i])

\* the position of the first COLOR token of a path, 0 when it has none
FirstColor(path) ==
  IF \E j \in 1..Len(path) : path[j] = ColorToken
  THEN CHOOSE j \in 1..Len(path) :
         /\ path[j] = ColorToken
         /\ \A k \in 1..(j - 1) : path[k] # ColorToken
  ELSE 0

\* the tokens the markup has in the place of template path i (from 0)
Emitted(q, i) ==
  SubSeq(q.svg, BodyStart(q.variant) + Offset(q.variant, i) + 1,
         BodyStart(q.variant) + Offset(q.variant, i + 1))

\* C21: constructSvgStringWithColors emits the template paths in template order; for
\* a path at index i that has a coordinate-table entry (x_i, y_i), the first COLOR
\* token of that path is replaced by rgb(r, g, b) of the palette entry at index
\* x_i + y_i * gridSizeX; a path whose index is beyond the table, whose colour index
\* is outside the palette, or that contains no COLOR token is emitted unchanged.
C21_PathsRecoloured ==
  \A r \in Reqs :
    LET q == rq[r]
        v == q.variant
    IN  q.pc = "svgdone" =>
          /\ Len(q.svg) = BodyStart(v) + Offset(v, Len(SvgPaths(v))) + BodyEnd(v)
          /\ \A i \in 0..(Len(SvgPaths(v)) - 1) :
               LET path == SvgPaths(v)[i + 1]
                   hasEntry == i < Len(q.pathColorIndices)
                   colorIndex == CoordinatesTable(v)[i + 1][1]
                                   + CoordinatesTable(v)[i + 1][2] * GridSizeX(v)
               IN  IF hasEntry /\ colorIndex < Len(q.palette) /\ FirstColor(path) # 0
                   THEN Emitted(q, i) =
                          [j \in 1..Len(path) |->
                             IF j = FirstColor(path) THEN Rgb(q.palette[colorIndex + 1])
                             ELSE path[j]]
                   ELSE Emitted(q, i) = path

\* one call in which a path is recoloured (background, cell (0, 0)), a path has a
\* colour index outside the palette (head 1), a path with an entry has no COLOR
\* (eyes), and a path is beyond the table (mouth)
C21_Witness ==
  \E r \in Reqs :
    LET q == rq[r]
    IN  /\ q.pc = "svgdone"
        /\ q.variant = "scaled_scape"
        /\ Len(q.palette) = 40
        /\ Len(q.pathColorIndices) = 9
        /\ Emitted(q, 6) = <<Lit("background"), Rgb(q.palette[1])>>
        /\ q.pathColorIndices[1] = 40 /\ Emitted(q, 0) = P("head 1")
        /\ q.pathColorIndices[3] = 0 /\ Emitted(q, 2) = Fixed("eyes #fff")
        /\ Emitted(q, 9) = Fixed("mouth black")

(***************************************************************************)
(* C22 The labels of the coordinate tables                                 *)
(***************************************************************************)
\* the token the markup carries as fill of the element with the given id
ElementFill(svg, id) ==
  svg[(CHOOSE j \in 1..Len(svg) : svg[j] = Lit(id)) + 1]

\* C22: in both frame variants of generate-image, each coordinate-table entry
\* colours the template element that its comment names ('torso path 1' colours the
\* element with id path1, 'BG 12' the background rect path12, 'left eye - left top'
\* the left-eye left-top element, and so on); in particular the background rect is
\* filled with the colour of grid cell (0, 0).
C22_EntryColoursNamedElement ==
  \A r \in Reqs :
    LET q == rq[r]
        v == q.variant
    IN  (v \in {"opepen_a", "opepen_b"} /\ q.pc = "raster") =>
          /\ \A i \in 1..Len(CoordinatesTable(v)) :
               ElementFill(q.svg, NamedElements(v)[i])
                 = Rgb(EntryOf(q, CoordinatesTable(v)[i][1], CoordinatesTable(v)[i][2]))
          /\ ElementFill(q.svg, BackgroundElement(v)) = Rgb(CellColor(q.img, v, 0, 0))

(***************************************************************************)
(* C23 A missing fid                                                       *)
(***************************************************************************)
MissingOrEmpty(fid) == fid = Undefined \/ fid = Str(<<>>)

\* C23: when fid is missing or empty, every generateImage variant returns without
\* making any network call: the frame variants return the static fallback image (or
\* null when that file cannot be read) and the API variants return null.
C23_MissingFidNoNetworkCall ==
  \A r \in Reqs :
    LET q == rq[r]
    IN  MissingOrEmpty(q.fid) =>
          /\ Fetches(q) = {}
          /\ q.gen.state # "rejected"
          /\ q.gen.state = "resolved" =>
               IF q.variant \in ApiVariants THEN q.gen.value = "null"
               ELSE q.gen.value \in {"fallback64", "", "null"}

(***************************************************************************)
(* C24 A status that is neither 2xx nor 429                                *)
(***************************************************************************)
\* the responses with a status such as 404 or 500
OtherStatuses(q) ==
  {i \in 1..Len(q.log) : q.log[i].ev = "resp" /\ q.log[i].kind = "status"}

\* C24: a non-2xx avatar response whose status is not 429 (for example 404 or 500)
\* is retried as well while retries remain: the error thrown for it is caught inside
\* the same attempt, which waits the backoff and fetches again; only when retries
\* is 0 does a non-2xx response make fetchWithRetry reject.
C24_OtherStatusIsRetried ==
  \A r \in Reqs :
    LET q == rq[r]
    IN  /\ \A i \in OtherStatuses(q) :
             IF q.log[i].left > 0
             THEN /\ Len(q.log) > i
                  /\ q.log[i + 1] = WaitEv(DefaultBackoff * Pow2(AttemptAt(q, i) - 1))
                  /\ Len(q.log) > i + 1 => q.log[i + 2] = FetchEv(q.log[i].url)
                  /\ ~(q.fwr.state = "rejected" /\ q.fwr.err.attempt = AttemptAt(q, i))
             ELSE /\ i = Len(q.log)
                  /\ q.fwr = Rejected([attempt |-> AttemptAt(q, i), kind |-> "status"])
        /\ (q.fwr.state = "rejected" /\ q.fwr.err.kind \in {"status", "s429"}) =>
             /\ q.log[Len(q.log)].ev = "resp"
             /\ q.log[Len(q.log)].left = 0

\* a 404 or 500 with retries left was followed by a wait and a new fetch, and one
\* with no retries left ended the call
C24_Witness ==
  \E r \in Reqs :
    LET q == rq[r]
    IN  /\ \E i \in OtherStatuses(q) :
             /\ q.log[i].left > 0
             /\ Len(q.log) >= i + 2
             /\ q.log[i + 1].ev = "wait"
             /\ q.log[i + 2].ev = "fetch"
        /\ \E i \in OtherStatuses(q) : q.log[i].left = 0
        /\ q.fwr.state = "rejected"
        /\ q.pc = "settle"

(***************************************************************************)
(* C25 When an API handler answers 400                                     *)
(***************************************************************************)
\* C25: an API handler answers 400 if and only if the method is not OPTIONS and fid
\* is not a string: every string fid passes validation whatever its content and
\* whatever the HTTP method, so an empty fid yields 404 without any network call
\* and a non-numeric fid proceeds to the profile lookup.
C25_BadRequestIffNotString ==
  \A r \in ApiReqs :
    LET q == rq[r]
        validated == q.method # "OPTIONS" /\ q.fid.type = "string"
    IN  /\ q.pc = "done" =>
             ((\E i \in 1..Len(q.responses) : q.responses[i].status = 400)
                <=> (q.method # "OPTIONS" /\ q.fid.type # "string"))
        /\ (validated /\ q.pc # "start" /\ q.fid.chars = <<>>) =>
             /\ Fetches(q) = {}
             /\ q.gen = Resolved("null")
             /\ q.pc = "done" => q.responses = <<ImageNotFound>>
        /\ (validated /\ q.pc # "start" /\ q.fid.chars # <<>>) =>
             q.log[1] = FetchEv(ProfileUrl(q.fid))

\* an empty fid was answered 404 without a fetch
C25_Witness ==
  \E r \in ApiReqs :
    /\ rq[r].fid = Str(<<>>)
    /\ rq[r].method = "GET"
    /\ rq[r].pc = "done"
    /\ rq[r].responses = <<ImageNotFound>>
    /\ Fetches(rq[r]) = {}

(***************************************************************************)
(* C26 Every read is inside the buffer                                     *)
(***************************************************************************)
\* C26: for a decoded buffer of exactly width * height * 3 bytes with width >= gx
\* and height >= gy, every pixel index read by getDominantColorInGrid for every
\* grid cell lies inside the buffer, so the zero default for a missing pixel is
\* never used.
C26_ReadsInsideBuffer ==
  \A r \in Reqs :
    LET q == rq[r]
        v == q.variant
        cw == CellWidth(q.img, v)
        ch == CellHeight(q.img, v)
    IN  (/\ q.img # NoImage
         /\ DataLength(q.img) = q.img.width * q.img.height * 3
         /\ q.img.width >= GridSizeX(v)
         /\ q.img.height >= GridSizeY(v)) =>
          \A cell \in Cells(v) :
            \A idx \in BytesRead(cell[1] * cw, cell[2] * ch, cw, ch, q.img.width) :
              /\ 0 <= idx /\ idx < DataLength(q.img)
              /\ Byte(q.img, idx) = (idx * q.img.mul + q.img.add) % 256

\* the last cell of a 19 x 19 image was read up to the blue byte of pixel (17, 17)
C26_Witness ==
  \E r \in Reqs :
    LET q == rq[r]
    IN  /\ q.variant = "custom_hat"
        /\ q.pc = "raster"
        /\ q.img.width = 19 /\ q.img.height = 19
        /\ PixelIndex(16, 16, 1, 1, 19) + 2 \in BytesRead(16, 16, 2, 2, 19)
        /\ PixelIndex(16, 16, 1, 1, 19) + 2 = (17 * 19 + 17) * 3 + 2
        /\ PixelIndex(16, 16, 1, 1, 19) + 2 < DataLength(q.img)
        /\ EntryOf(q, 8, 8) = CellColor(q.img, q.variant, 8, 8)

(***************************************************************************)
(* C27 The coordinate tables stay inside the grid                          *)
(***************************************************************************)
\* C27: in every variant, every entry (x, y) of the coordinate table satisfies
\* 0 <= x < gridSizeX and 0 <= y < gridSizeY, so every derived colour index
\* x + y * gridSizeX addresses an existing palette entry and the out-of-range
\* branch of the substitution is never taken for a table entry.
C27_TableInsideGrid ==
  \A r \in Reqs :
    LET q == rq[r]
        v == q.variant
    IN  /\ \A i \in 1..Len(CoordinatesTable(v)) :
             /\ 0 <= CoordinatesTable(v)[i][1] /\ CoordinatesTable(v)[i][1] < GridSizeX(v)
             /\ 0 <= CoordinatesTable(v)[i][2] /\ CoordinatesTable(v)[i][2] < GridSizeY(v)
        /\ q.pc = "raster" =>
             \A i \in 1..Len(PathColorIndices(v)) :
               /\ 0 <= PathColorIndices(v)[i]
               /\ PathColorIndices(v)[i] < Len(q.palette)
               /\ i <= Len(SvgPaths(v)) =>
                    Emitted(q, i - 1) =
                      ReplaceColor(SvgPaths(v)[i],
                                   Rgb(EntryOf(q, CoordinatesTable(v)[i][1],
                                               CoordinatesTable(v)[i][2])))

\* the entry nearest to the end of a palette: cell (5, 11) of 12 x 12, index 137
C27_Witness ==
  \E r \in Reqs :
    LET q == rq[r]
    IN  /\ q.variant = "opepen_b"
        /\ q.pc = "raster"
        /\ Len(q.palette) = 144
        /\ q.img.width >= 12 /\ q.img.height >= 12
        /\ CoordinatesTable("opepen_b")[2] = <<5, 11>>
        /\ PathColorIndices("opepen_b")[2] = 137
        /\ Emitted(q, 1) = <<Lit("path2"), Rgb(q.palette[138])>>

(***************************************************************************)
(* C28 The reducer counts the actions                                      *)
(***************************************************************************)
\* C28: the frame reducer increases total_button_presses by exactly 1 on every
\* action: starting from the initial state (0), after any sequence of n actions the
\* counter equals n, and it never decreases or skips a value.
C28_CounterCountsActions ==
  /\ [](\A r \in Reqs : rq[r].state.total_button_presses = rq[r].dispatched)
  /\ [][\A r \in Reqs :
          rq'[r].state.total_button_presses = rq[r].state.total_button_presses + 1]_vars

\* seven actions of different kinds have been dispatched
C28_Witness ==
  \E r \in Reqs :
    /\ rq[r].pc = "frame"
    /\ rq[r].dispatched = 7
    /\ rq[r].state.total_button_presses = 7
    /\ rq[r].action = NoPostBody
    /\ rq[r].state.active = "1"

(***************************************************************************)
(* C29 The active button                                                   *)
(***************************************************************************)
DigitChar(d) ==
  CASE d = 0 -> "0" [] d = 1 -> "1" [] d = 2 -> "2" [] d = 3 -> "3" [] d = 4 -> "4"
    [] d = 5 -> "5" [] d = 6 -> "6" [] d = 7 -> "7" [] d = 8 -> "8" [] d = 9 -> "9"

RECURSIVE Decimal(_)
Decimal(n) == IF n < 10 THEN DigitChar(n) ELSE Decimal(n \div 10) \o DigitChar(n % 10)

\* the action carries a buttonIndex other than 0
CarriesButton(action) ==
  action.postBody /\ action.buttonIndex.type = "number" /\ action.buttonIndex.num # 0

\* the states the reducer may be given
States == {[active |-> a, total_button_presses |-> n] : a \in {"1", "3", "10"}, n \in {0, 5}}

\* C29: after any action, the reducer's active field is the decimal string of the
\* action's buttonIndex when the action carries a non-zero buttonIndex, and "1"
\* otherwise (no post body, no buttonIndex, or buttonIndex 0); it does not depend
\* on the previous state.
C29_ActiveFollowsButton ==
  \A r \in Reqs :
    LET q == rq[r]
    IN  (q.pc = "frame" /\ q.dispatched > 0) =>
          /\ q.state.active = (IF CarriesButton(q.action) THEN Decimal(q.action.buttonIndex.num)
                               ELSE "1")
          /\ \A state \in States : Reducer(state, q.action).active = q.state.active

\* button 10 was pressed after button 3, then an action without post body came
C29_Witness ==
  \E r \in Reqs :
    LET q == rq[r]
    IN  /\ q.pc = "frame"
        /\ q.dispatched = 2
        /\ q.action = PostBody(Num(10))
        /\ q.state.active = "10"
        /\ Reducer(q.state, PostBody(Num(0))).active = "1"
        /\ Reducer(q.state, NoPostBody).active = "1"

(***************************************************************************)
(* C30 The badge colour of a fid                                           *)
(***************************************************************************)
\* the thresholds of a variant with their colours, in the order they are tested,
\* and the colour of a fid below none of them
Tiers(v) ==
  CASE v = "opepen_b" -> << <<1000, "#FFD700">>, <<10000, "#855DCD">> >>
    [] v = "custom_member" ->
         << <<1000, "gold">>, <<10000, "#855DCD">>, <<20000, "#CCFF00">>,
            <<100000, "#0857FF">> >>
    [] OTHER -> << <<1000, "gold">>, <<10000, "#855DCD">>, <<20000, "#94E337">> >>

DefaultColor(v) == IF v = "custom_member" THEN "#1F1D2A" ELSE "white"

\* the colour of the first threshold the number is below
TierOf(v, n) ==
  IF n # NaN /\ \E i \in 1..Len(Tiers(v)) : n < Tiers(v)[i][1]
  THEN Tiers(v)[CHOOSE i \in 1..Len(Tiers(v)) :
                  /\ n < Tiers(v)[i][1]
                  /\ \A j \in 1..(i - 1) : n >= Tiers(v)[j][1]][2]
  ELSE DefaultColor(v)

HasFarcheck(v) == v \in {"custom_hat", "custom_member", "opepen_b"}

\* C30: getColorForFid assigns every fid exactly one badge colour by the first
\* threshold it is below: fid < 1000 gives the gold tier, 1000 <= fid < 10000 gives
\* '#855DCD', higher fids get the variant's later tiers or its default; a fid string
\* that is not a number (Number(fid) is NaN) is below no threshold and gets the
\* variant's default colour.
C30_BadgeColourByFirstThreshold ==
  \A r \in Reqs :
    LET q == rq[r]
        v == q.variant
        n == ToNumber(q.fid)
        colour == GetColorForFid(v, n)
    IN  (v # "opepen_a" /\ q.pc = "svgdone") =>
          /\ colour = TierOf(v, n)
          /\ (n # NaN /\ n < 1000) => colour \in {"gold", "#FFD700"}
          /\ (n # NaN /\ 1000 <= n /\ n < 10000) => colour = "#855DCD"
          /\ (n # NaN /\ n >= 10000) =>
               colour \in {Tiers(v)[i][2] : i \in 3..Len(Tiers(v))} \cup {DefaultColor(v)}
          /\ n = NaN => colour = DefaultColor(v)
          /\ HasFarcheck(v) =>
               Cardinality({i \in 1..Len(q.svg) : q.svg[i].t = "fill"}
                             \ (IF v = "custom_hat" /\ q.palette = <<>> THEN {2} ELSE {})) = 1
          /\ HasFarcheck(v) => \E i \in 1..Len(q.svg) : q.svg[i] = Fill(colour)

\* a fid that is no number got the default colour of its variant in the markup
C30_Witness ==
  \E r \in Reqs :
    LET q == rq[r]
    IN  /\ q.pc = "svgdone"
        /\ q.variant = "custom_member"
        /\ q.fid = Str(<<"a", "b">>)
        /\ ToNumber(q.fid) = NaN
        /\ \E i \in 1..Len(q.svg) : q.svg[i] = Fill("#1F1D2A")
        /\ GetColorForFid("custom_member", 99999) = "#0857FF"
        /\ GetColorForFid("custom_member", 100000) = "#1F1D2A"
====
